---- MODULE Spec2Model ----
(***************************************************************************)
(* A model of the geo-aware redirect service: the geo-resolution engine    *)
(* (src/services/geo.js), the key-value store adapter (src/storage/        *)
(* redis.js), the configuration store (src/storage/config.js), the         *)
(* configuration validation (src/config/validation.js), the admin          *)
(* configuration route (router.post('/api/config')), the redirect routes   *)
(* /tg and /website, and the rate limiter with its middleware.             *)
(*                                                                         *)
(* JavaScript strings are sequences of one-character strings, so that      *)
(* toUpperCase, trim, replace and the regular expressions are computed     *)
(* character by character.  Other JavaScript values are tagged records.    *)
(***************************************************************************)
EXTENDS Integers, Sequences, FiniteSets, TLC

VARIABLES
  rt,              \* harness of the pure functions: inputs and result
  ipinfoToken,     \* config.get('ipinfoToken')
  client,          \* RedisManager.client is not null
  isConnected,     \* RedisManager.isConnected
  redisData,       \* the durable backend's keys
  memoryFallback,  \* RedisManager.memoryFallback
  timers,          \* pending setTimeout deletions of the fallback map, per key
  geo,             \* the getCountryCode call in flight
  log,             \* the external calls of the call in flight, in order
  fresh,           \* the provider resolution the last call ended with, if undisturbed
  callsLeft,       \* how many more requests the model starts
  cachedConfig,    \* ConfigStorage.cachedConfig
  cacheAge,        \* Date.now() - ConfigStorage.lastCacheTime, in ms (saturated)
  cfg,             \* the ConfigStorage call in flight and its outcome
  cfg2,            \* a setConfig call that runs while the call of cfg awaits its write
  adm,             \* the POST /admin/api/config request in flight and its response
  connectionAttempts, \* RedisManager.connectionAttempts
  rm,              \* the RedisManager call in flight and what it returned
  req,             \* the request to a redirect route in flight and its response
  settings,        \* ConfigManager.config: what config.get returns
  maxRequests,     \* RateLimiter.maxRequests
  memoryStore,     \* RateLimiter.memoryStore: the timestamps kept per client id
  rateSets,        \* the backend's sorted sets rate_limit:<client id>: their scores
  now,             \* Date.now()
  rl,              \* the requests in the rate limiting middleware
  admitted         \* per client id, the times at which checkLimit allowed a request

vars == <<rt, ipinfoToken, client, isConnected, redisData, memoryFallback, timers,
          geo, log, fresh, callsLeft, cachedConfig, cacheAge, cfg, cfg2, adm,
          connectionAttempts, rm, req, settings, maxRequests, memoryStore, rateSets,
          now, rl, admitted>>

redisVars == <<client, isConnected, redisData, memoryFallback, timers>>
geoVars == <<geo, log, fresh, callsLeft>>
cfgVars == <<cachedConfig, cacheAge, cfg, cfg2, adm>>
svcVars == <<connectionAttempts, rm, req>>
rlVars == <<maxRequests, memoryStore, rateSets, now, rl, admitted>>

-----------------------------------------------------------------------------
(* Bounds of the model *)

MaxForceLen == 2
MaxCalls == 2
MaxInvalid == 2
MaxDelayLen == 3
MaxTimers == 2
\* The last millisecond of the clock of the rate limiter
MaxNow == 2
\* The requests the model sends through the rate limiter
MaxRlRequests == 2
\* RATE_LIMIT_WINDOW, in ms, and the two values of RATE_LIMIT_MAX the model runs with
shortWindow == 2
smallMax == 1
largeMax == 12

MaxAttempts == 4

-----------------------------------------------------------------------------
(* JavaScript values *)

Undef == [k |-> "undef", s |-> <<>>, n |-> 0]
Null == [k |-> "null", s |-> <<>>, n |-> 0]
Str(s) == [k |-> "str", s |-> s, n |-> 0]
Num(n) == [k |-> "num", s |-> <<>>, n |-> n]

\* JavaScript truthiness: undefined, null, "" and 0 are falsy
Truthy(v) ==
  CASE v.k = "str" -> v.s # <<>>
    [] v.k = "num" -> v.n # 0
    [] OTHER -> FALSE

LowerLetters == <<"a","b","c","d","e","f","g","h","i","j","k","l","m",
                  "n","o","p","q","r","s","t","u","v","w","x","y","z">>
UpperLetters == <<"A","B","C","D","E","F","G","H","I","J","K","L","M",
                  "N","O","P","Q","R","S","T","U","V","W","X","Y","Z">>
Digits10 == <<"0","1","2","3","4","5","6","7","8","9">>
Digits == {"0","1","2","3","4","5","6","7","8","9"}
Whitespace == {" ", "\n", "\t"}

Range(f) == {f[i] : i \in DOMAIN f}
LowerSet == Range(LowerLetters)
UpperSet == Range(UpperLetters)
IsLower(c) == c \in LowerSet
IsUpper(c) == c \in UpperSet
IsAlpha(c) == IsLower(c) \/ IsUpper(c)
IsDigit(c) == c \in Digits
IsAlnum(c) == IsAlpha(c) \/ IsDigit(c)
IndexIn(c, letters) == CHOOSE i \in DOMAIN letters : letters[i] = c

UpperChar(c) == IF IsLower(c) THEN UpperLetters[IndexIn(c, LowerLetters)] ELSE c
LowerChar(c) == IF IsUpper(c) THEN LowerLetters[IndexIn(c, UpperLetters)] ELSE c

\* String.prototype.toUpperCase / toLowerCase
toUpperCase(s) == [i \in DOMAIN s |-> UpperChar(s[i])]
toLowerCase(s) == [i \in DOMAIN s |-> LowerChar(s[i])]

\* String.prototype.trim
RECURSIVE TrimLeft(_)
TrimLeft(s) == IF s # <<>> /\ Head(s) \in Whitespace THEN TrimLeft(Tail(s)) ELSE s
RECURSIVE TrimRight(_)
TrimRight(s) ==
  IF s # <<>> /\ s[Len(s)] \in Whitespace THEN TrimRight(SubSeq(s, 1, Len(s) - 1)) ELSE s
trim(s) == TrimRight(TrimLeft(s))

\* String.prototype.startsWith, as the anchored regular expressions use it
StartsWith(s, p) == Len(s) >= Len(p) /\ SubSeq(s, 1, Len(p)) = p

\* All strings over an alphabet up to a length
StringsUpTo(alphabet, n) == UNION {[1..m -> alphabet] : m \in 0..n}

TR == <<"T","R">>
REST == <<"R","E","S","T">>
US == <<"U","S">>

-----------------------------------------------------------------------------
(* GeoLocationService.determineRouting *)

determineRoutingForceAnyCase(country, forceCountry) ==
  IF Truthy(forceCountry)
    THEN IF forceCountry.s = TR THEN TR ELSE REST
    ELSE IF country = TR THEN TR ELSE REST

\* country is a string; forceCountry a JavaScript value (default null)
determineRouting(country, forceCountry) ==
  IF Truthy(forceCountry)
    THEN LET force == toUpperCase(forceCountry.s)
         IN IF force = TR THEN TR ELSE REST
    ELSE IF country = TR THEN TR ELSE REST

-----------------------------------------------------------------------------
(* IP addresses: GeoLocationService.isPrivateIP and validateIPAddress *)

\* s split at every occurrence of the character sep
RECURSIVE SplitFrom(_, _, _)
SplitFrom(s, sep, cur) ==
  IF s = <<>> THEN <<cur>>
  ELSE IF Head(s) = sep THEN <<cur>> \o SplitFrom(Tail(s), sep, <<>>)
  ELSE SplitFrom(Tail(s), sep, Append(cur, Head(s)))
Split(s, sep) == SplitFrom(s, sep, <<>>)

\* /^172\.(1[6-9]|2[0-9]|3[0-1])\./
Is172Private(ip) ==
  /\ StartsWith(ip, <<"1","7","2",".">>)
  /\ Len(ip) >= 7
  /\ \/ ip[5] = "1" /\ ip[6] \in {"6","7","8","9"}
     \/ ip[5] = "2" /\ ip[6] \in Digits
     \/ ip[5] = "3" /\ ip[6] \in {"0","1"}
  /\ ip[7] = "."

isPrivateIP(ip) ==
  \/ ip = <<>>
  \/ StartsWith(ip, <<"1","2","7",".">>)
  \/ StartsWith(ip, <<"1","0",".">>)
  \/ StartsWith(ip, <<"1","9","2",".","1","6","8",".">>)
  \/ Is172Private(ip)
  \/ ip = <<":",":","1">>
  \/ StartsWith(ip, <<"f","e","8","0",":">>)
  \/ StartsWith(ip, <<"f","c","0","0",":">>)
  \/ StartsWith(ip, <<"f","d","0","0",":">>)

\* (?:25[0-5]|2[0-4][0-9]|[01]?[0-9][0-9]?)
IsOctet(o) ==
  /\ Len(o) \in 1..3
  /\ \A i \in DOMAIN o : IsDigit(o[i])
  /\ Len(o) = 3 =>
       \/ o[1] \in {"0","1"}
       \/ o[1] = "2" /\ o[2] \in {"0","1","2","3","4"}
       \/ o[1] = "2" /\ o[2] = "5" /\ o[3] \in {"0","1","2","3","4","5"}

IsHexDigit(c) == IsDigit(c) \/ c \in {"a","b","c","d","e","f","A","B","C","D","E","F"}
IsHexGroup(g) == Len(g) \in 1..4 /\ \A i \in DOMAIN g : IsHexDigit(g[i])

ipv4Regex(ip) ==
  LET parts == Split(ip, ".")
  IN Len(parts) = 4 /\ \A i \in 1..4 : IsOctet(parts[i])

\* /^(?:[0-9a-fA-F]{1,4}:){7}[0-9a-fA-F]{1,4}$|^::1$|^::$/
ipv6Regex(ip) ==
  \/ LET parts == Split(ip, ":")
     IN Len(parts) = 8 /\ \A i \in 1..8 : IsHexGroup(parts[i])
  \/ ip = <<":",":","1">>
  \/ ip = <<":",":">>

\* validateIPAddress(ip) returns ip; FALSE here stands for its ValidationError
validateIPAddress(ip) == ip # <<>> /\ (ipv4Regex(ip) \/ ipv6Regex(ip))

IpEmpty == <<>>
IpLoopback == <<"1","2","7",".","0",".","0",".","1">>
IpPrivate172 == <<"1","7","2",".","1","6",".","0",".","1">>
IpGoogle == <<"8",".","8",".","8",".","8">>
IpPublic172 == <<"1","7","2",".","3","2",".","0",".","1">>
IpV6Compressed == <<"2","0","0","1",":","d","b","8",":",":","1">>
IpV6Local == <<"f","e","8","0",":",":","1">>
IpMalformed == <<"9","9","9",".","1",".","1",".","1">>

\* The client addresses the model's requests come from
ClientIPs ==
  {IpEmpty, IpLoopback, IpPrivate172, IpV6Local, IpGoogle, IpPublic172, IpV6Compressed,
   IpMalformed}

\* String.prototype.replace(pattern, "") with a string pattern: the first
\* occurrence of pattern, wherever it is, is removed
replace(s, pattern) ==
  LET at == {i \in 1..(Len(s) - Len(pattern) + 1) : SubSeq(s, i, i + Len(pattern) - 1) = pattern}
  IN IF at = {} THEN s
     ELSE LET i == CHOOSE j \in at : \A k \in at : j <= k
          IN SubSeq(s, 1, i - 1) \o SubSeq(s, i + Len(pattern), Len(s))

\* The prefix of an IPv4-mapped IPv6 address
mappedPrefix == <<":",":","f","f","f","f",":">>

\* GeoLocationService.getClientIP(req), from the headers x-forwarded-for and
\* x-real-ip and from req.ip
getClientIP(xff, xrip, ip) ==
  LET first == IF xff.k = "str" THEN trim(Split(xff.s, ",")[1]) ELSE <<>>
  IN IF Truthy(xff) /\ xff.k = "str" /\ first # <<>> THEN first
     ELSE IF Truthy(xrip) /\ xrip.k = "str" THEN xrip.s
     ELSE replace(IF Truthy(ip) THEN ip.s ELSE <<>>, mappedPrefix)

-----------------------------------------------------------------------------
(* RedisManager: get and set over the durable backend and the fallback map *)

\* ConfigStorage.configKey
configKey == <<"w","h","a","t","s","a","p","p","_","c","o","n","f","i","g">>
\* `geo_${ip}`
GeoKey(ip) == <<"g","e","o","_">> \o ip

\* geo_<ip> for every address of valid format, and the configuration key
Keys == {GeoKey(ip) : ip \in {a \in ClientIPs : validateIPAddress(a)}}
          \cup {configKey}

\* What a key holds: nothing, a string, or a serialized configuration record
NoVal == [k |-> "none", s |-> <<>>, r |-> <<>>]
StrVal(s) == [k |-> "str", s |-> s, r |-> <<>>]
JsonVal(r) == [k |-> "json", s |-> <<>>, r |-> r]
\* a stored string is truthy when it is not empty
Present(v) == v.k = "json" \/ (v.k = "str" /\ v.s # <<>>)

\* A key of the durable backend: its value and whether it carries an expiry
NoEntry == [v |-> NoVal, exp |-> FALSE]

UsesRedis == isConnected /\ client

\* this.memoryFallback.get(key) || null
MemoryGet(key) == IF Present(memoryFallback[key]) THEN memoryFallback[key] ELSE NoVal

\* RedisManager.get(key); ok: the durable command succeeds
RedisGet(key, ok) ==
  IF UsesRedis
    THEN IF ok THEN redisData[key].v ELSE MemoryGet(key)
    ELSE MemoryGet(key)

\* this.memoryFallback.set(key, value); if (ttl) setTimeout(delete, ttl * 1000)
MemorySet(key, value, ttl) ==
  [mem |-> [memoryFallback EXCEPT ![key] = value],
   tim |-> IF ttl # 0 THEN [timers EXCEPT ![key] = @ + 1] ELSE timers]

\* RedisManager.set(key, value, ttl): the state after it and what it returns
RedisSet(key, value, ttl, ok) ==
  IF UsesRedis /\ ok
    THEN [data |-> [redisData EXCEPT ![key] = [v |-> value, exp |-> (ttl # 0)]],
          mem |-> memoryFallback, tim |-> timers, ret |-> TRUE]
    ELSE [data |-> redisData,
          mem |-> MemorySet(key, value, ttl).mem,
          tim |-> MemorySet(key, value, ttl).tim,
          ret |-> ~UsesRedis]

RedisDelNoCatch(key, ok) ==
  IF UsesRedis
    THEN [data |-> IF ok THEN [redisData EXCEPT ![key] = NoEntry] ELSE redisData,
          mem |-> memoryFallback, ret |-> ok, raised |-> ~ok]
    ELSE [data |-> redisData, mem |-> [memoryFallback EXCEPT ![key] = NoVal],
          ret |-> TRUE, raised |-> FALSE]

\* RedisManager.del(key): the state after it, what it returns, and whether it
\* throws; the catch deletes from the fallback map and returns false
RedisDel(key, ok) ==
  IF UsesRedis /\ ok
    THEN [data |-> [redisData EXCEPT ![key] = NoEntry], mem |-> memoryFallback,
          ret |-> TRUE, raised |-> FALSE]
    ELSE [data |-> redisData, mem |-> [memoryFallback EXCEPT ![key] = NoVal],
          ret |-> ~UsesRedis, raised |-> FALSE]

\* RedisManager.exists(key): result === 1, or this.memoryFallback.has(key)
RedisExists(key, ok) ==
  IF UsesRedis /\ ok THEN redisData[key].v # NoVal ELSE memoryFallback[key] # NoVal

\* What a call of the manager returns: a stored value or null, a boolean, or
\* the object of healthCheck
NoRet == [k |-> "none", v |-> NoVal, b |-> FALSE, status |-> "none", type |-> "none"]
ValRet(v) == [NoRet EXCEPT !.k = "value", !.v = v]
BoolRet(b) == [NoRet EXCEPT !.k = "bool", !.b = b]
Health(status, type) == [NoRet EXCEPT !.k = "health", !.status = status, !.type = type]

healthCheckNoProbe(ok) ==
  IF UsesRedis THEN Health("healthy", "redis") ELSE Health("degraded", "memory")

\* RedisManager.healthCheck(); ok: PING succeeds
healthCheck(ok) ==
  IF UsesRedis
    THEN IF ok THEN Health("healthy", "redis") ELSE Health("unhealthy", "error")
    ELSE Health("degraded", "memory")

\* The call of the manager in flight: conn is the test this.isConnected &&
\* this.client at the call, ok whether the durable command succeeded, before
\* what the fallback map held for the key at the call
\* last: the call that returned just before, while no event of the client, no
\* deferred removal and no expiry has come since
NoLast == [op |-> "none", key |-> <<>>, value |-> NoVal, ttl |-> 0, conn |-> FALSE,
           ret |-> NoRet]
RmIdle ==
  [pc |-> "idle", op |-> "none", key |-> <<>>, value |-> NoVal, ttl |-> 0,
   conn |-> FALSE, ok |-> FALSE, before |-> NoVal, ret |-> NoRet, raised |-> FALSE,
   last |-> NoLast, quiet |-> TRUE]

\* An event came: the call in flight and the one before it are no longer the
\* last thing that happened
Disturbed(r) == [r EXCEPT !.last = NoLast, !.quiet = FALSE]

\* The state after the call op(key, value, ttl) of the manager and its outcome
ManagerOp(op, key, value, ttl, ok) ==
  LET same == [data |-> redisData, mem |-> memoryFallback, tim |-> timers]
  IN CASE op = "get" ->
            same @@ [ret |-> ValRet(RedisGet(key, ok)), raised |-> FALSE]
       [] op = "set" ->
            LET w == RedisSet(key, value, ttl, ok)
            IN [data |-> w.data, mem |-> w.mem, tim |-> w.tim,
                ret |-> BoolRet(w.ret), raised |-> FALSE]
       [] op = "del" ->
            LET w == RedisDel(key, ok)
            IN [data |-> w.data, mem |-> w.mem, tim |-> timers,
                ret |-> BoolRet(w.ret), raised |-> w.raised]
       [] op = "exists" ->
            same @@ [ret |-> BoolRet(RedisExists(key, ok)), raised |-> FALSE]
       [] OTHER -> same @@ [ret |-> healthCheck(ok), raised |-> FALSE]

\* Bookkeeping of the model: the provider resolution a call ended with (cur), and
\* the one the previous call ended with while nothing has touched the store since
NoResolution == [ok |-> FALSE, ip |-> <<>>, country |-> <<>>]
FreshNone == [prev |-> NoResolution, cur |-> NoResolution]

\* A caller awaits redisManager.get, set, del, exists or healthCheck
ManagerCall(op, key, value, ttl) ==
  /\ rm.pc = "idle"
  /\ \E ok \in BOOLEAN :
       LET w == ManagerOp(op, key, value, ttl, ok)
       IN /\ redisData' = w.data /\ memoryFallback' = w.mem /\ timers' = w.tim
          /\ rm' = [pc |-> "done", op |-> op, key |-> key, value |-> value, ttl |-> ttl,
                    conn |-> UsesRedis, ok |-> (UsesRedis /\ ok),
                    before |-> IF key \in Keys THEN memoryFallback[key] ELSE NoVal,
                    ret |-> w.ret, raised |-> w.raised, last |-> rm.last,
                    quiet |-> TRUE]
  /\ fresh' = FreshNone
  /\ UNCHANGED <<rt, ipinfoToken, settings, rlVars, connectionAttempts, req, client, isConnected,
                 geo, log, callsLeft, cfgVars>>

\* The call returns to its caller
ManagerReturn ==
  /\ rm.pc = "done"
  /\ rm' = [RmIdle EXCEPT !.last = IF rm.quiet
                                     THEN [op |-> rm.op, key |-> rm.key, value |-> rm.value,
                                           ttl |-> rm.ttl, conn |-> rm.conn, ret |-> rm.ret]
                                     ELSE NoLast]
  /\ UNCHANGED <<rt, ipinfoToken, settings, rlVars, connectionAttempts, req, redisVars, geoVars, cfgVars>>

(* The events of the ioredis client (setupEventHandlers) *)
\* 'connect': isConnected = true, connectionAttempts = 0
RedisConnect ==
  /\ client /\ ~isConnected
  /\ isConnected' = TRUE
  /\ connectionAttempts' = 0
  /\ fresh' = FreshNone
  /\ rm' = IF rm.pc = "idle" THEN [rm EXCEPT !.last = NoLast] ELSE Disturbed(rm)
  /\ UNCHANGED <<rt, ipinfoToken, settings, rlVars, req, client, redisData, memoryFallback, timers,
                 geo, log, callsLeft, cfgVars>>

\* 'error' and 'close': isConnected = false
RedisError ==
  /\ client /\ isConnected
  /\ isConnected' = FALSE
  /\ fresh' = FreshNone
  /\ rm' = IF rm.pc = "idle" THEN [rm EXCEPT !.last = NoLast] ELSE Disturbed(rm)
  /\ UNCHANGED <<rt, ipinfoToken, settings, rlVars, connectionAttempts, req, client, redisData,
                 memoryFallback, timers, geo, log, callsLeft, cfgVars>>

\* this.maxRetries; no method reads it
maxRetries == 3

\* 'reconnecting': connectionAttempts++.  The client is built without a
\* retryStrategy, so it goes on reconnecting while the backend is unreachable
RedisReconnecting ==
  /\ client /\ ~isConnected
  /\ connectionAttempts < MaxAttempts
  /\ connectionAttempts' = connectionAttempts + 1
  /\ UNCHANGED <<rt, ipinfoToken, settings, rlVars, rm, req, redisVars, geoVars, cfgVars>>

\* The deferred removal that a fallback set with a ttl scheduled
TimerFire(key) ==
  /\ timers[key] > 0
  /\ timers' = [timers EXCEPT ![key] = @ - 1]
  /\ memoryFallback' = [memoryFallback EXCEPT ![key] = NoVal]
  /\ fresh' = FreshNone
  /\ rm' = IF rm.pc = "idle" THEN [rm EXCEPT !.last = NoLast] ELSE Disturbed(rm)
  /\ UNCHANGED <<rt, ipinfoToken, settings, rlVars, connectionAttempts, req, client, isConnected,
                 redisData, geo, log, callsLeft, cfgVars>>

\* The durable backend drops a key whose expiry is reached
RedisExpire(key) ==
  /\ client
  /\ redisData[key].exp
  /\ redisData' = [redisData EXCEPT ![key] = NoEntry]
  /\ fresh' = FreshNone
  /\ rm' = IF rm.pc = "idle" THEN [rm EXCEPT !.last = NoLast] ELSE Disturbed(rm)
  /\ UNCHANGED <<rt, ipinfoToken, settings, rlVars, connectionAttempts, req, client, isConnected,
                 memoryFallback, timers, geo, log, callsLeft, cfgVars>>

\* ConfigManager.set('ipinfoToken', value)
ConfigManagerSet(value) ==
  /\ ipinfoToken # value
  /\ ipinfoToken' = value
  /\ UNCHANGED <<rt, settings, rlVars, svcVars, redisVars, geoVars, cfgVars>>

-----------------------------------------------------------------------------
(* GeoLocationService: providers, fetchFromProvider, getFallbackCountry,    *)
(* getCountryCode                                                          *)

providersReversed == <<"ip-api", "ipapi", "ipinfo">>
\* this.providers, in order
providers == <<"ipinfo", "ipapi", "ip-api">>
\* config.get('geoCacheTTL'), seconds
geoCacheTTL == 86400
\* provider.timeout, ms: the delay after which TimerAbort may fire
providerTimeout == 3000

Token == <<"k","e","y">>

(* The body of an HTTP answer: a JSON object with the fields country and
   countryCode, a JSON string, JSON null, or text that is not JSON. *)
Obj(country, countryCode) ==
  [k |-> "obj", country |-> country, countryCode |-> countryCode, s |-> <<>>]
JStr(s) == [k |-> "str", country |-> Undef, countryCode |-> Undef, s |-> s]
JNull == [k |-> "null", country |-> Undef, countryCode |-> Undef, s |-> <<>>]
Text(s) == [k |-> "text", country |-> Undef, countryCode |-> Undef, s |-> s]

Bodies ==
  { Obj(Str(<<"t","r">>), Undef), Obj(Str(US), Undef), Obj(Undef, Str(TR)),
    Obj(Undef, Str(<<"u","s">>)), Obj(Undef, Undef), Obj(Str(<<>>), Str(<<>>)),
    Obj(Num(90), Num(90)), JStr(<<" ","u","s","\n">>), JStr(<<" ">>), JNull,
    Text(<<"T","R","\n">>) }

\* response.json(): FALSE when the body is not JSON
JsonOk(body) == body.k # "text"

\* field?.toUpperCase() || null, with "" for null and FALSE for a TypeError
UpperOrNull(field) ==
  CASE field.k = "str" -> [ok |-> TRUE, c |-> toUpperCase(field.s)]
    [] field.k \in {"undef", "null"} -> [ok |-> TRUE, c |-> <<>>]
    [] OTHER -> [ok |-> FALSE, c |-> <<>>]

\* provider.parser(data): ok is FALSE when the parser throws
parser(name, data) ==
  CASE name = "ipinfo" ->
         IF data.k = "null" THEN [ok |-> FALSE, c |-> <<>>]
         ELSE UpperOrNull(data.country)
    [] name = "ipapi" ->
         IF data.k = "null" THEN [ok |-> TRUE, c |-> <<>>]
         ELSE IF data.k = "str" THEN [ok |-> TRUE, c |-> toUpperCase(trim(data.s))]
         ELSE [ok |-> FALSE, c |-> <<>>]
    [] OTHER ->
         IF data.k = "null" THEN [ok |-> FALSE, c |-> <<>>]
         ELSE UpperOrNull(data.countryCode)

\* What fetchFromProvider makes of an answered body: the country, or "" for null
ProviderCountry(name, body) ==
  IF JsonOk(body) /\ parser(name, body).ok THEN parser(name, body).c ELSE <<>>

\* An entry of the log of external calls
Ev(op, name, key, val, ttl) == [op |-> op, name |-> name, key |-> key, val |-> val, ttl |-> ttl]

GeoIdle ==
  [pc |-> "idle", ip |-> <<>>, idx |-> 0, country |-> <<>>, ret |-> Undef,
   src |-> "none", timer |-> FALSE, raised |-> FALSE, routing |-> <<>>,
   data |-> JNull]

\* What the catch of getFallbackCountry returns
FallbackCatchRethrows(g) == [g EXCEPT !.pc = "done", !.raised = TRUE, !.src = "fallback"]
FallbackCatch(g) == [g EXCEPT !.pc = "done", !.ret = Str(REST), !.src = "fallback"]

FallbackEntryNoTokenCheck(g, lg) ==
  [g |-> [g EXCEPT !.pc = "fb_pending", !.src = "fallback", !.timer = FALSE],
   lg |-> Append(lg, Ev("http", "self", <<>>, <<>>, 0))]

\* getFallbackCountry up to its fetch
FallbackEntry(g, lg) ==
  IF ipinfoToken = <<>>
    THEN [g |-> [g EXCEPT !.pc = "done", !.ret = Str(REST), !.src = "fallback",
                          !.timer = FALSE],
          lg |-> lg]
    ELSE [g |-> [g EXCEPT !.pc = "fb_pending", !.src = "fallback", !.timer = FALSE],
          lg |-> Append(lg, Ev("http", "self", <<>>, <<>>, 0))]

FallbackCountryCached(g, body) ==
  IF JsonOk(body) /\ body.k # "null" /\ UpperOrNull(body.country).ok
    THEN LET c == UpperOrNull(body.country).c
         IN [g EXCEPT !.pc = "cacheCountry", !.src = "fallback", !.data = body,
                      !.country = IF c # <<>> THEN c ELSE REST]
    ELSE FallbackCatch([g EXCEPT !.data = body])

\* data.country?.toUpperCase() || 'REST', inside the try of getFallbackCountry
FallbackCountry(g, body) ==
  IF JsonOk(body) /\ body.k # "null" /\ UpperOrNull(body.country).ok
    THEN LET c == UpperOrNull(body.country).c
         IN [g EXCEPT !.pc = "done", !.src = "fallback", !.data = body,
                      !.ret = Str(IF c # <<>> THEN c ELSE REST)]
    ELSE FallbackCatch([g EXCEPT !.data = body])

\* The loop of getCountryCode from provider i on, up to the next await
RECURSIVE TryProviders(_, _, _)
TryProviders(g, lg, i) ==
  IF i > Len(providers) THEN FallbackEntry(g, lg)
  ELSE LET asked == Append(lg, Ev("query", providers[i], g.ip, <<>>, 0))
       IN IF providers[i] = "ipinfo" /\ ipinfoToken = <<>>
            THEN TryProviders(g, Append(asked, Ev("answer", providers[i], g.ip, <<>>, 0)), i + 1)
            ELSE [g |-> [g EXCEPT !.pc = "fetch_pending", !.idx = i, !.timer = TRUE],
                  lg |-> Append(asked, Ev("http", providers[i], g.ip, <<>>, 0))]

\* fetchFromProvider returned null for provider g.idx
ProviderFailed(g, lg) ==
  TryProviders(g, Append(lg, Ev("answer", providers[g.idx], g.ip, <<>>, 0)), g.idx + 1)

GeoStartNoPrivateCheck(g, lg) ==
  IF ~validateIPAddress(g.ip)
    THEN FallbackEntry(g, lg)
    ELSE [g |-> [g EXCEPT !.pc = "getCached"], lg |-> lg]

\* getCountryCode up to its first await
GeoEntry(g, lg) ==
  IF g.ip = <<>> \/ isPrivateIP(g.ip)
    THEN FallbackEntry(g, lg)
  ELSE IF ~validateIPAddress(g.ip)
    \* the ValidationError lands in the outer catch, which calls getFallbackCountry
    THEN FallbackEntry(g, lg)
  ELSE [g |-> [g EXCEPT !.pc = "getCached"], lg |-> lg]

\* A request with client address ip calls getCountryCode(ip)
GeoStart(ip) ==
  /\ geo.pc = "idle"
  /\ callsLeft > 0
  /\ callsLeft' = callsLeft - 1
  /\ LET n == GeoEntry([GeoIdle EXCEPT !.ip = ip], <<>>)
     IN geo' = n.g /\ log' = n.lg
  /\ UNCHANGED <<rt, ipinfoToken, settings, rlVars, svcVars, redisVars, fresh, cfgVars>>

\* if (cached) return cached; else the provider loop
GetCached(g, lg, v) ==
  IF Present(v)
    THEN [g |-> [g EXCEPT !.pc = "done", !.ret = Str(v.s), !.src = "cache"], lg |-> lg]
    ELSE TryProviders(g, lg, 1)

\* getCachedCountry(ip): await redisManager.get(`geo_${ip}`)
GetCachedCountry ==
  /\ geo.pc = "getCached"
  /\ \E ok \in BOOLEAN :
       LET v == RedisGet(GeoKey(geo.ip), ok)
           n == GetCached(geo, Append(log, Ev("get", "cache", GeoKey(geo.ip), <<>>, 0)), v)
       IN geo' = n.g /\ log' = n.lg
  /\ UNCHANGED <<rt, ipinfoToken, settings, rlVars, svcVars, redisVars, fresh, callsLeft, cfgVars>>

\* fetch rejects (network error): the catch of fetchFromProvider returns null
HttpReject ==
  /\ geo.pc = "fetch_pending"
  /\ LET n == ProviderFailed(geo, log) IN geo' = n.g /\ log' = n.lg
  /\ UNCHANGED <<rt, ipinfoToken, settings, rlVars, svcVars, redisVars, fresh, callsLeft, cfgVars>>

\* setTimeout(() => controller.abort(), provider.timeout): AbortError, null
TimerAbort ==
  /\ geo.pc = "fetch_pending"
  /\ geo.timer
  /\ LET n == ProviderFailed(geo, log) IN geo' = n.g /\ log' = n.lg
  /\ UNCHANGED <<rt, ipinfoToken, settings, rlVars, svcVars, redisVars, fresh, callsLeft, cfgVars>>

\* fetch resolves with the status line: clearTimeout, then the response.ok test
HttpHeaders(ok) ==
  /\ geo.pc = "fetch_pending"
  /\ LET n == IF ok
                THEN [g |-> [geo EXCEPT !.pc = "body_pending", !.timer = FALSE], lg |-> log]
                ELSE ProviderFailed([geo EXCEPT !.timer = FALSE], log)
     IN geo' = n.g /\ log' = n.lg
  /\ UNCHANGED <<rt, ipinfoToken, settings, rlVars, svcVars, redisVars, fresh, callsLeft, cfgVars>>

\* response.json() settles: provider.parser, then if (country) cacheCountry
BodyArrives(body) ==
  /\ geo.pc = "body_pending"
  /\ LET c == ProviderCountry(providers[geo.idx], body)
         n == IF c # <<>>
                THEN [g |-> [geo EXCEPT !.pc = "cacheCountry", !.country = c, !.data = body],
                      lg |-> Append(log, Ev("answer", providers[geo.idx], geo.ip, c, 0))]
                ELSE ProviderFailed([geo EXCEPT !.data = body], log)
     IN geo' = n.g /\ log' = n.lg
  /\ UNCHANGED <<rt, ipinfoToken, settings, rlVars, svcVars, redisVars, fresh, callsLeft, cfgVars>>

\* cacheCountry(ip, country): await redisManager.set(key, country, ttl); return country
CacheCountry ==
  /\ geo.pc = "cacheCountry"
  /\ \E ok \in BOOLEAN :
       LET key == GeoKey(geo.ip)
           w == RedisSet(key, StrVal(geo.country), geoCacheTTL, ok)
       IN /\ redisData' = w.data
          /\ memoryFallback' = w.mem
          /\ timers' = w.tim
          /\ log' = Append(log, Ev("set", "cache", key, geo.country, geoCacheTTL))
  /\ geo' = [geo EXCEPT !.pc = "done", !.ret = Str(geo.country), !.src = "provider"]
  /\ fresh' = [fresh EXCEPT !.cur = [ok |-> TRUE, ip |-> geo.ip, country |-> geo.country]]
  /\ UNCHANGED <<rt, ipinfoToken, settings, rlVars, svcVars, client, isConnected, callsLeft, cfgVars>>

\* the self-lookup fetch rejects
FbReject ==
  /\ geo.pc = "fb_pending"
  /\ geo' = FallbackCatch(geo)
  /\ UNCHANGED <<rt, ipinfoToken, settings, rlVars, svcVars, redisVars, log, fresh, callsLeft, cfgVars>>

\* the self-lookup fetch resolves with the status line
FbHeaders(ok) ==
  /\ geo.pc = "fb_pending"
  /\ geo' = IF ok THEN [geo EXCEPT !.pc = "fb_body"] ELSE FallbackCatch(geo)
  /\ UNCHANGED <<rt, ipinfoToken, settings, rlVars, svcVars, redisVars, log, fresh, callsLeft, cfgVars>>

\* response.json() of the self-lookup settles
FbBody(body) ==
  /\ geo.pc = "fb_body"
  /\ geo' = FallbackCountry(geo, body)
  /\ UNCHANGED <<rt, ipinfoToken, settings, rlVars, svcVars, redisVars, log, fresh, callsLeft, cfgVars>>

\* router.get('/tg') without force: routing = determineRouting(country, "")
TgRoute ==
  /\ geo.pc = "done"
  /\ geo' = [geo EXCEPT !.pc = "idle",
                        !.routing = IF geo.raised THEN <<>>
                                    ELSE determineRouting(geo.ret.s, Str(<<>>))]
  /\ fresh' = [prev |-> fresh.cur, cur |-> NoResolution]
  /\ UNCHANGED <<rt, ipinfoToken, settings, rlVars, svcVars, redisVars, log, callsLeft, cfgVars>>

-----------------------------------------------------------------------------
(* Configuration records and their validation (src/config/validation.js)   *)

\* The fields of a configuration record, in the order validateConfiguration
\* checks them; redirect_message is not checked
FieldOrder ==
  <<"number_default", "number_tr", "text_default", "text_tr",
    "telegram_channel_default", "telegram_channel_tr",
    "telegram_text_default", "telegram_text_tr",
    "website_url_default", "website_url_tr",
    "redirect_type", "redirect_delay", "redirect_message">>
FieldSet == Range(FieldOrder)

\* The first argument of each error message: the field label validateConfiguration passes
Label(f) ==
  CASE f = "number_default" -> "default"
    [] f = "number_tr" -> "Turkey"
    [] f = "text_default" -> "default text"
    [] f = "text_tr" -> "Turkey text"
    [] f = "telegram_channel_default" -> "default Telegram channel"
    [] f = "telegram_channel_tr" -> "Turkey Telegram channel"
    [] f = "telegram_text_default" -> "default Telegram text"
    [] f = "telegram_text_tr" -> "Turkey Telegram text"
    [] f = "website_url_default" -> "default website URL"
    [] f = "website_url_tr" -> "Turkey website URL"
    [] f = "redirect_type" -> "redirect type"
    [] f = "redirect_delay" -> "redirect delay"
    [] OTHER -> "none"

\* What a validator does: return a value, or throw an error with a message.
\* A message is the pair of the field label and the text that follows it.
Return(v) == [ok |-> TRUE, err |-> <<>>, val |-> v]
Throw(label, text) == [ok |-> FALSE, err |-> <<label, text>>, val |-> Undef]
\* a method call on a value that is not a string
TypeError(text) == Throw("TypeError", text)

\* /^[1-9]\d{6,14}$/
phoneNumberRegex(s) ==
  /\ Len(s) \in 7..15
  /\ \A i \in DOMAIN s : IsDigit(s[i])
  /\ s[1] # "0"

\* /^[a-zA-Z0-9_]{5,32}$/
telegramChannelRegex(s) ==
  /\ Len(s) \in 5..32
  /\ \A i \in DOMAIN s : IsAlnum(s[i]) \/ s[i] = "_"

IsWord(c) == IsAlnum(c) \/ c = "_"
\* [-a-zA-Z0-9@:%._\+~#=]
IsHostChar(c) == IsAlnum(c) \/ c \in {"-", "@", ":", "%", ".", "_", "+", "~", "#", "="}
\* [a-zA-Z0-9()]
IsTldChar(c) == IsAlnum(c) \/ c \in {"(", ")"}
\* [-a-zA-Z0-9()@:%_\+.~#?&//=]
IsPathChar(c) ==
  IsAlnum(c) \/ c \in {"-", "(", ")", "@", ":", "%", "_", "+", ".", "~", "#", "?", "&", "/", "="}
\* \b after position e of s
WordBoundary(s, e) == IsWord(s[e]) # (e < Len(s) /\ IsWord(s[e + 1]))

Drop(s, n) == SubSeq(s, n + 1, Len(s))

\* /^https?:\/\/(www\.)?[-a-zA-Z0-9@:%._\+~#=]{1,256}\.[a-zA-Z0-9()]{1,6}\b([-a-zA-Z0-9()@:%_\+.~#?&//=]*)$/
websiteUrlRegex(u) ==
  \E p \in {<<"h","t","t","p",":","/","/">>, <<"h","t","t","p","s",":","/","/">>} :
    /\ StartsWith(u, p)
    /\ \E w \in {<<>>, <<"w","w","w",".">>} :
         /\ StartsWith(Drop(u, Len(p)), w)
         /\ LET h == Drop(u, Len(p) + Len(w))
            IN \E d \in 2..Len(h) :
                 /\ h[d] = "."
                 /\ d - 1 <= 256
                 /\ \A k \in 1..(d - 1) : IsHostChar(h[k])
                 /\ \E t \in 1..6 :
                      /\ d + t <= Len(h)
                      /\ \A k \in (d + 1)..(d + t) : IsTldChar(h[k])
                      /\ WordBoundary(h, d + t)
                      /\ \A k \in (d + t + 1)..Len(h) : IsPathChar(h[k])

\* validateText's default maxLength
maxLength == 1000

validatePhoneNumber(number, field) ==
  IF ~Truthy(number) THEN Throw(field, "number is required")
  ELSE IF number.k # "str" THEN TypeError("number.replace is not a function")
  ELSE LET cleanNumber == SelectSeq(number.s, IsDigit)
       IN IF ~phoneNumberRegex(cleanNumber)
            THEN Throw(field, "number must be 7-15 digits and not start with 0")
            ELSE Return(Str(cleanNumber))

\* text.length is undefined for a number, and undefined > maxLength is false
validateText(text, field) ==
  IF Truthy(text) /\ text.k = "str" /\ Len(text.s) > maxLength
    THEN Throw(field, "must be less than 1000 characters")
    ELSE Return(IF Truthy(text) THEN text ELSE Str(<<>>))

validateTelegramChannel(channel, field) ==
  IF ~Truthy(channel) THEN Throw(field, "is required")
  ELSE IF channel.k # "str" THEN TypeError("channel.replace is not a function")
  ELSE LET cleanChannel == IF Head(channel.s) = "@" THEN Tail(channel.s) ELSE channel.s
       IN IF ~telegramChannelRegex(cleanChannel)
            THEN Throw(field, "must be 5-32 characters, alphanumeric and underscores only")
            ELSE Return(Str(cleanChannel))

\* RegExp.test turns a number into its decimal string, which never matches
validateWebsiteUrl(url, field) ==
  IF ~Truthy(url) THEN Throw(field, "is required")
  ELSE IF url.k # "str" \/ ~websiteUrlRegex(url.s)
    THEN Throw(field, "must be a valid HTTP or HTTPS URL")
  ELSE Return(url)

validTypes == {<<"i","m","m","e","d","i","a","t","e">>, <<"d","e","l","a","y","e","d">>, <<"c","u","s","t","o","m">>}

validateRedirectType(type, field) ==
  IF ~Truthy(type) THEN Throw(field, "is required")
  ELSE IF type.k # "str" THEN TypeError("type.toLowerCase is not a function")
  ELSE IF toLowerCase(type.s) \notin validTypes
    THEN Throw(field, "must be one of: immediate, delayed, custom")
  ELSE Return(Str(toLowerCase(type.s)))

\* The value of a string of decimal digits
RECURSIVE DigitsValue(_)
DigitsValue(s) ==
  IF s = <<>> THEN 0
  ELSE 10 * DigitsValue(SubSeq(s, 1, Len(s) - 1))
         + (CHOOSE d \in 0..9 : <<"0","1","2","3","4","5","6","7","8","9">>[d + 1] = s[Len(s)])

\* The longest prefix of s made of digits
RECURSIVE DigitPrefix(_)
DigitPrefix(s) ==
  IF s # <<>> /\ IsDigit(Head(s)) THEN <<Head(s)>> \o DigitPrefix(Tail(s)) ELSE <<>>

\* parseInt(v) for a number (integers only here) or a string without a radix
\* prefix: leading white space, an optional sign, then the leading digits
parseInt(v) ==
  IF v.k = "num" THEN [nan |-> FALSE, n |-> v.n]
  ELSE IF v.k # "str" THEN [nan |-> TRUE, n |-> 0]
  ELSE LET t == TrimLeft(v.s)
           signed == t # <<>> /\ Head(t) \in {"+", "-"}
           digits == DigitPrefix(IF signed THEN Tail(t) ELSE t)
       IN IF digits = <<>> THEN [nan |-> TRUE, n |-> 0]
          ELSE [nan |-> FALSE,
                n |-> IF signed /\ Head(t) = "-" THEN 0 - DigitsValue(digits)
                      ELSE DigitsValue(digits)]

\* validateRedirectDelay's default and range
defaultDelay == 3000
maxDelay == 30000

validateRedirectDelay(delay, field) ==
  IF delay.k \in {"undef", "null"} THEN Return(Num(defaultDelay))
  ELSE LET numDelay == parseInt(delay)
       IN IF numDelay.nan \/ numDelay.n < 0 \/ numDelay.n > maxDelay
            THEN Throw(field, "must be a number between 0 and 30000 milliseconds")
            ELSE Return(Num(numDelay.n))

\* Whether validateConfiguration runs the check of field f on config
Applies(f, config) ==
  CASE f \in {"number_default", "number_tr", "text_default", "text_tr"} -> TRUE
    [] f \in {"telegram_channel_default", "telegram_channel_tr",
              "website_url_default", "website_url_tr", "redirect_type"} -> Truthy(config[f])
    [] f \in {"telegram_text_default", "telegram_text_tr", "redirect_delay"} ->
         config[f].k # "undef"
    [] OTHER -> FALSE

\* The validator validateConfiguration calls for field f
FieldCheck(f, config) ==
  CASE f \in {"number_default", "number_tr"} -> validatePhoneNumber(config[f], Label(f))
    [] f \in {"text_default", "text_tr", "telegram_text_default", "telegram_text_tr"} ->
         validateText(config[f], Label(f))
    [] f \in {"telegram_channel_default", "telegram_channel_tr"} ->
         validateTelegramChannel(config[f], Label(f))
    [] f \in {"website_url_default", "website_url_tr"} -> validateWebsiteUrl(config[f], Label(f))
    [] f = "redirect_type" -> validateRedirectType(config[f], Label(f))
    [] OTHER -> validateRedirectDelay(config[f], Label(f))

\* errors after the try blocks of the fields from position i on
RECURSIVE ErrorsFrom(_, _)
ErrorsFrom(config, i) ==
  IF i > Len(FieldOrder) THEN <<>>
  ELSE LET f == FieldOrder[i]
       IN IF Applies(f, config) /\ ~FieldCheck(f, config).ok
            THEN <<FieldCheck(f, config).err>> \o ErrorsFrom(config, i + 1)
            ELSE ErrorsFrom(config, i + 1)

validateConfigurationFirstError(config) ==
  LET errors == ErrorsFrom(config, 1)
  IN IF Len(errors) > 0
       THEN [ok |-> FALSE, errors |-> <<Head(errors)>>, val |-> config]
       ELSE [ok |-> TRUE, errors |-> <<>>, val |-> config]

\* validateConfiguration(config): throws one ValidationError made of errors, or
\* returns config itself
validateConfiguration(config) ==
  LET errors == ErrorsFrom(config, 1)
  IN IF Len(errors) > 0
       THEN [ok |-> FALSE, errors |-> errors, val |-> config]
       ELSE [ok |-> TRUE, errors |-> <<>>, val |-> config]

\* JSON.stringify of a record: its defined fields, as key and value
stringify(config) ==
  SelectSeq([i \in DOMAIN FieldOrder |-> <<FieldOrder[i], config[FieldOrder[i]]>>],
            LAMBDA p : p[2].k # "undef")

\* JSON.parse of a serialized record: a field that is not there reads undefined
parse(json) ==
  [f \in FieldSet |->
     IF \E i \in DOMAIN json : json[i][1] = f
       THEN json[CHOOSE i \in DOMAIN json : json[i][1] = f][2]
       ELSE Undef]

-----------------------------------------------------------------------------
(* ConfigStorage (src/storage/config.js)                                    *)

\* this.cacheTTL, seconds
cacheTTL == 300

\* The defaults ConfigManager's constructor uses for what the environment leaves
\* unset; the two Turkish texts are set through TURKEY_TEXT and TURKEY_TELEGRAM_TEXT
builtinConfig ==
  [number_default |-> Str(<<"1","2","3","4","5","6","7","8","9","0">>),
   number_tr |-> Str(<<"1","2","3","4","5","6","7","8","9","0">>),
   text_default |-> Str(<<"H","e","l","l","o","!"," ","H","o","w"," ","c","a","n"," ","I"," ","h","e","l","p"," ","y","o","u","?">>),
   text_tr |-> Str(<<"M","e","r","h","a","b","a","!">>),
   telegram_channel_default |-> Str(<<"y","o","u","r","_","d","e","f","a","u","l","t","_","c","h","a","n","n","e","l">>),
   telegram_channel_tr |-> Str(<<"y","o","u","r","_","t","u","r","k","e","y","_","c","h","a","n","n","e","l">>),
   telegram_text_default |-> Str(<<"H","e","l","l","o","!"," ","H","o","w"," ","c","a","n"," ","I"," ","h","e","l","p"," ","y","o","u","?">>),
   telegram_text_tr |-> Str(<<"M","e","r","h","a","b","a","!">>),
   website_url_default |-> Str(<<"h","t","t","p","s",":","/","/","e","x","a","m","p","l","e",".","c","o","m">>),
   website_url_tr |-> Str(<<"h","t","t","p","s",":","/","/","t","u","r","k","e","y",".","e","x","a","m","p","l","e",".","c","o","m">>),
   redirect_type |-> Str(<<"i","m","m","e","d","i","a","t","e">>),
   redirect_delay |-> Num(3000),
   redirect_message |-> Str(<<"R","e","d","i","r","e","c","t","i","n","g"," ","t","o"," ","o","u","r"," ","w","e","b","s","i","t","e",".",".",".">>)]

\* ConfigManager.config with nothing but the two texts set in the environment
\* (NODE_ENV unset: the rate limit is 500 requests in 600000 ms)
builtinSettings ==
  [f \in FieldSet \cup {"rateLimitWindow", "rateLimitMax"} |->
     IF f = "rateLimitWindow" THEN Num(600000)
     ELSE IF f = "rateLimitMax" THEN Num(500)
     ELSE builtinConfig[f]]

\* The record getConfig falls back to and resetConfig stores: config.get of
\* each of the thirteen fields
defaultConfig == [f \in FieldSet |-> settings[f]]

\* The object {} and the values of cachedConfig: null or a record
EmptyObj == [f \in FieldSet |-> Undef]
NullConfig == [k |-> "null", r |-> EmptyObj]
ObjConfig(r) == [k |-> "obj", r |-> r]

\* A key the updates object of updateConfig does not have
Absent == [k |-> "absent", s |-> <<>>, n |-> 0]
NoUpdates == [f \in FieldSet |-> Absent]

MergeCurrentLast(currentConfig, updates) ==
  [f \in FieldSet |-> IF currentConfig[f] # Undef \/ updates[f] = Absent
                        THEN currentConfig[f] ELSE updates[f]]

\* { ...currentConfig, ...updates }
Merge(currentConfig, updates) ==
  [f \in FieldSet |-> IF updates[f] = Absent THEN currentConfig[f] ELSE updates[f]]

\* Date.now() - lastCacheTime in ms, kept up to cacheTTL * 1000
AgeSamples == {0, cacheTTL * 1000 - 1, cacheTTL * 1000}

CacheHitInclusive == cachedConfig.k = "obj" /\ cacheAge <= cacheTTL * 1000

\* this.cachedConfig && (Date.now() - this.lastCacheTime) < (this.cacheTTL * 1000)
CacheHit == cachedConfig.k = "obj" /\ cacheAge < cacheTTL * 1000

\* What getConfig makes of the stored value: the parsed record, or the defaults
\* when nothing is stored or the stored text does not parse
LoadConfig(storedConfig) ==
  IF storedConfig.k = "json" THEN parse(storedConfig.r) ELSE defaultConfig

\* Bookkeeping of the model: the cache and the store at the start of a call, and
\* the call that returned just before this one (a rejected updateConfig and the
\* record it had read, or a setConfig or resetConfig that succeeded, the record
\* it returned and whether its write was handed to the client)
NoSnapshot ==
  [hit |-> FALSE, recent |-> FALSE, cache |-> NullConfig, durable |-> NoEntry, mem |-> NoVal]
Snapshot ==
  [hit |-> CacheHit, recent |-> (cacheAge < cacheTTL * 1000), cache |-> cachedConfig,
   durable |-> redisData[configKey], mem |-> memoryFallback[configKey]]
NoFollow ==
  [failed |-> FALSE, cur |-> EmptyObj, op |-> "none", val |-> EmptyObj, conn |-> FALSE]

\* sent: the write command was handed to the client; saved: what
\* redisManager.set returned; reads: the calls of redisManager.get
CfgIdle ==
  [pc |-> "idle", op |-> "none", arg |-> EmptyObj, cur |-> EmptyObj, val |-> EmptyObj,
   ret |-> NullConfig, err |-> "none", errors |-> <<>>,
   sent |-> FALSE, saved |-> TRUE, reads |-> 0,
   before |-> NoSnapshot, follows |-> NoFollow]

\* A call of operation op with argument arg begins
CfgCall(op, arg) ==
  [CfgIdle EXCEPT !.op = op, !.arg = arg, !.before = Snapshot, !.follows = cfg.follows]

\* The error a failed validation leaves the operation with: setConfig and
\* updateConfig rethrow the ValidationError, resetConfig wraps it
Raised(op) == IF op = "resetConfig" THEN "StorageError" ELSE "ValidationError"

\* The messages the error carries: new StorageError('Failed to reset
\* configuration') has none of the ValidationError's
RaisedErrors(op, errors) == IF op = "resetConfig" THEN <<>> ELSE errors

SetConfigBeginCacheFirst(c, newConfig, cache, age) ==
  LET v == validateConfiguration(newConfig)
  IN IF ~v.ok
       THEN [cfg |-> [c EXCEPT !.pc = "done", !.err = Raised(c.op),
                              !.errors = RaisedErrors(c.op, v.errors)],
             cache |-> ObjConfig(newConfig), age |-> 0]
       ELSE [cfg |-> [c EXCEPT !.pc = "set_write", !.val = v.val, !.sent = UsesRedis],
             cache |-> ObjConfig(v.val), age |-> 0]

\* setConfig(newConfig) up to its await: validate, update the cache, call
\* redisManager.set, which hands the command to the client when it is connected
SetConfigBegin(c, newConfig, cache, age) ==
  LET v == validateConfiguration(newConfig)
  IN IF ~v.ok
       THEN [cfg |-> [c EXCEPT !.pc = "done", !.err = Raised(c.op),
                              !.errors = RaisedErrors(c.op, v.errors)],
             cache |-> cache, age |-> age]
       ELSE [cfg |-> [c EXCEPT !.pc = "set_write", !.val = v.val, !.sent = UsesRedis],
             cache |-> ObjConfig(v.val), age |-> 0]

\* redisManager.set(configKey, configJson) up to its await: without a connected
\* client the fallback map is written at once
SetIssue(c) ==
  IF c.pc = "set_write" /\ ~c.sent
    THEN [memoryFallback EXCEPT ![configKey] = JsonVal(stringify(c.val))]
    ELSE memoryFallback

\* redisManager.set after its await: the command of call c succeeded (ok), or
\* it was rejected and the catch writes the fallback map and returns false
SetSettle(c, ok) ==
  IF ~c.sent THEN [data |-> redisData, mem |-> memoryFallback, ret |-> TRUE]
  ELSE IF ok
    THEN [data |-> [redisData EXCEPT ![configKey] =
                      [v |-> JsonVal(stringify(c.val)), exp |-> FALSE]],
          mem |-> memoryFallback, ret |-> TRUE]
    ELSE [data |-> redisData,
          mem |-> [memoryFallback EXCEPT ![configKey] = JsonVal(stringify(c.val))],
          ret |-> FALSE]

\* getConfig() up to its await: the cached record, or a read of the store
GetConfigBegin ==
  IF CacheHit
    THEN [CfgCall("getConfig", EmptyObj) EXCEPT !.pc = "done", !.ret = cachedConfig]
    ELSE [CfgCall("getConfig", EmptyObj) EXCEPT !.pc = "get_read", !.reads = 1]

\* getConfig() called on its own
GetConfigCall ==
  /\ cfg.pc = "idle"
  /\ cfg' = GetConfigBegin
  /\ UNCHANGED <<rt, ipinfoToken, settings, rlVars, svcVars, redisVars, geoVars, cachedConfig, cacheAge, cfg2, adm>>

\* await redisManager.get(configKey) settles in getConfig: parse and cache the
\* stored record, or cache the defaults
GetConfigRead ==
  /\ cfg.pc = "get_read"
  /\ \E ok \in BOOLEAN :
       LET loaded == LoadConfig(RedisGet(configKey, ok))
       IN /\ cachedConfig' = ObjConfig(loaded)
          /\ cfg' = [cfg EXCEPT !.pc = "done", !.ret = ObjConfig(loaded)]
  /\ cacheAge' = 0
  /\ UNCHANGED <<rt, ipinfoToken, settings, rlVars, svcVars, redisVars, geoVars, cfg2, adm>>

\* setConfig(newConfig)
SetConfigCall(newConfig) ==
  /\ cfg.pc = "idle"
  /\ LET n == SetConfigBegin(CfgCall("setConfig", newConfig), newConfig, cachedConfig, cacheAge)
     IN /\ cfg' = n.cfg /\ cachedConfig' = n.cache /\ cacheAge' = n.age
        /\ memoryFallback' = SetIssue(n.cfg)
  /\ UNCHANGED <<rt, ipinfoToken, settings, rlVars, svcVars, client, isConnected, redisData, timers, geoVars, cfg2, adm>>

\* await redisManager.set(configKey, JSON.stringify(validatedConfig)) settles (a
\* command succeeds only over a live connection); setConfig returns
\* validatedConfig whatever redisManager.set returned
SetConfigWrite ==
  /\ cfg.pc = "set_write"
  /\ \E ok \in BOOLEAN :
       /\ ~cfg.sent => ok
       /\ (cfg.sent /\ ok) => isConnected
       /\ LET w == SetSettle(cfg, ok)
          IN /\ redisData' = w.data /\ memoryFallback' = w.mem
             /\ cfg' = [cfg EXCEPT !.pc = "done", !.ret = ObjConfig(cfg.val), !.saved = w.ret]
  /\ UNCHANGED <<rt, ipinfoToken, settings, rlVars, svcVars, client, isConnected, timers, geoVars,
                 cachedConfig, cacheAge, cfg2, adm>>

\* updateConfig(updates) from its start: getConfig, merge, setConfig
UpdateConfigBegin(updates) ==
  IF CacheHit
    THEN LET c == [CfgCall("updateConfig", updates) EXCEPT !.cur = cachedConfig.r]
             n == SetConfigBegin(c, Merge(c.cur, updates), cachedConfig, cacheAge)
         IN /\ cfg' = n.cfg /\ cachedConfig' = n.cache /\ cacheAge' = n.age
            /\ memoryFallback' = SetIssue(n.cfg)
    ELSE /\ cfg' = [CfgCall("updateConfig", updates) EXCEPT !.pc = "upd_read", !.reads = 1]
         /\ UNCHANGED <<cachedConfig, cacheAge, memoryFallback>>

\* updateConfig(updates)
UpdateConfigCall(updates) ==
  /\ cfg.pc = "idle"
  /\ UpdateConfigBegin(updates)
  /\ UNCHANGED <<rt, ipinfoToken, settings, rlVars, svcVars, client, isConnected, redisData, timers, geoVars, cfg2, adm>>

\* the store read of updateConfig's getConfig settles: cache what was read,
\* then merge and setConfig
UpdateConfigRead ==
  /\ cfg.pc = "upd_read"
  /\ \E ok \in BOOLEAN :
       LET loaded == LoadConfig(RedisGet(configKey, ok))
           c == [cfg EXCEPT !.cur = loaded]
           n == SetConfigBegin(c, Merge(loaded, cfg.arg), ObjConfig(loaded), 0)
       IN /\ cfg' = n.cfg /\ cachedConfig' = n.cache /\ cacheAge' = n.age
          /\ memoryFallback' = SetIssue(n.cfg)
  /\ UNCHANGED <<rt, ipinfoToken, settings, rlVars, svcVars, client, isConnected, redisData, timers, geoVars, cfg2, adm>>

\* resetConfig(): setConfig(defaultConfig), returns defaultConfig
ResetConfigCall ==
  /\ cfg.pc = "idle"
  /\ LET n == SetConfigBegin(CfgCall("resetConfig", EmptyObj), defaultConfig,
                             cachedConfig, cacheAge)
     IN /\ cfg' = n.cfg /\ cachedConfig' = n.cache /\ cacheAge' = n.age
        /\ memoryFallback' = SetIssue(n.cfg)
  /\ UNCHANGED <<rt, ipinfoToken, settings, rlVars, svcVars, client, isConnected, redisData, timers, geoVars, cfg2, adm>>

\* The slot of the call after it returned or threw to its caller
Returned(c) ==
  [CfgIdle EXCEPT
     !.follows = IF c.op = "updateConfig" /\ c.err = "ValidationError"
                   THEN [NoFollow EXCEPT !.failed = TRUE, !.cur = c.cur]
                 ELSE IF c.err = "none" /\ c.op \in {"setConfig", "resetConfig"}
                   THEN [NoFollow EXCEPT !.op = c.op, !.val = c.ret.r, !.conn = c.sent]
                 ELSE NoFollow]

\* The call returns or throws to its caller
CfgReturn ==
  /\ cfg.pc = "done"
  /\ cfg' = Returned(cfg)
  /\ UNCHANGED <<rt, ipinfoToken, settings, rlVars, svcVars, redisVars, geoVars, cachedConfig, cacheAge, cfg2, adm>>

\* Time passes
Advance ==
  /\ \E age \in AgeSamples : age > cacheAge /\ cacheAge' = age
  /\ UNCHANGED <<rt, ipinfoToken, settings, rlVars, svcVars, redisVars, geoVars, cachedConfig, cfg, cfg2, adm>>

-----------------------------------------------------------------------------
(* POST /admin/api/config (the admin router) and the global error handler  *)

\* The fields the route reads from req.body, in the order it processes them
BodyOrder ==
  <<"tr_number", "default_number", "tr_text", "default_text",
    "tr_telegram_channel", "default_telegram_channel",
    "tr_telegram_text", "default_telegram_text">>
BodyFields == Range(BodyOrder) \cup {"default_country_code"}
NoBody == [b \in BodyFields |-> Undef]

\* The configuration field the route fills from a body field
Target(b) ==
  CASE b = "tr_number" -> "number_tr"
    [] b = "default_number" -> "number_default"
    [] b = "tr_text" -> "text_tr"
    [] b = "default_text" -> "text_default"
    [] b = "tr_telegram_channel" -> "telegram_channel_tr"
    [] b = "default_telegram_channel" -> "telegram_channel_default"
    [] b = "tr_telegram_text" -> "telegram_text_tr"
    [] OTHER -> "telegram_text_default"

\* The if around each step of the route
RouteApplies(b, body) ==
  CASE b \in {"tr_number", "tr_telegram_channel", "default_telegram_channel"} -> Truthy(body[b])
    [] b = "default_number" -> Truthy(body[b]) /\ Truthy(body["default_country_code"])
    [] OTHER -> body[b].k # "undef"

\* The validator the route calls on a body field
RouteCheck(b, body) ==
  CASE b \in {"tr_number", "default_number"} -> validatePhoneNumber(body[b], Label(Target(b)))
    [] b \in {"tr_telegram_channel", "default_telegram_channel"} ->
         validateTelegramChannel(body[b], Label(Target(b)))
    [] OTHER -> validateText(body[b], Label(Target(b)))

\* What the route puts into updates: '90' + cleanNumber,
\* default_country_code + cleanNumber, or the validator's value
RouteValue(b, body) ==
  CASE b = "tr_number" -> Str(<<"9", "0">> \o RouteCheck(b, body).val.s)
    [] b = "default_number" ->
         Str(body["default_country_code"].s \o RouteCheck(b, body).val.s)
    [] OTHER -> RouteCheck(b, body).val

\* The route from step i on: the first validator that throws ends it
RECURSIVE RouteFrom(_, _, _)
RouteFrom(body, i, updates) ==
  IF i > Len(BodyOrder) THEN [ok |-> TRUE, err |-> <<>>, updates |-> updates]
  ELSE LET b == BodyOrder[i]
       IN IF ~RouteApplies(b, body) THEN RouteFrom(body, i + 1, updates)
          ELSE IF ~RouteCheck(b, body).ok
            THEN [ok |-> FALSE, err |-> RouteCheck(b, body).err, updates |-> updates]
          ELSE RouteFrom(body, i + 1, [updates EXCEPT ![Target(b)] = RouteValue(b, body)])

\* errorHandler: error.statusCode || 500
StatusOf(err) == IF err[1] = "TypeError" THEN 500 ELSE 400

\* The request and its response: res.status(...).json({error: error.message}),
\* the message being the list of the violations it names
AdmIdle ==
  [pc |-> "idle", body |-> NoBody, updates |-> NoUpdates,
   status |-> 0, errors |-> <<>>, config |-> NullConfig]

\* router.post('/api/config') of a request that passed validateAdmin, up to its
\* await: a validator that throws is answered by errorHandler
AdminPostConfig(body) ==
  /\ adm.pc = "idle" /\ cfg.pc = "idle"
  /\ LET r == RouteFrom(body, 1, NoUpdates)
     IN IF ~r.ok
          THEN /\ adm' = [AdmIdle EXCEPT !.pc = "responded", !.body = body,
                                         !.status = StatusOf(r.err), !.errors = <<r.err>>]
               /\ UNCHANGED <<cfg, cachedConfig, cacheAge, memoryFallback>>
          ELSE /\ adm' = [AdmIdle EXCEPT !.pc = "await", !.body = body, !.updates = r.updates]
               /\ UpdateConfigBegin(r.updates)
  /\ UNCHANGED <<rt, ipinfoToken, settings, rlVars, svcVars, client, isConnected, redisData, timers, geoVars, cfg2>>

\* configStorage.updateConfig settles: res.json({success: true, config}), or
\* errorHandler answers with the ValidationError's status and message
AdminRespond ==
  /\ adm.pc = "await" /\ cfg.pc = "done"
  /\ adm' = [adm EXCEPT !.pc = "responded",
                        !.status = IF cfg.err = "none" THEN 200 ELSE 400,
                        !.errors = cfg.errors,
                        !.config = cfg.ret]
  /\ cfg' = Returned(cfg)
  /\ UNCHANGED <<rt, ipinfoToken, settings, rlVars, svcVars, redisVars, geoVars, cachedConfig, cacheAge, cfg2>>

\* The response is sent
AdminClose ==
  /\ adm.pc = "responded"
  /\ adm' = AdmIdle
  /\ UNCHANGED <<rt, ipinfoToken, settings, rlVars, svcVars, redisVars, geoVars, cachedConfig, cacheAge, cfg, cfg2>>

-----------------------------------------------------------------------------
(* The redirect routes: router.get('/tg') and router.get('/website')       *)

\* No request in flight.  force, text and target are what url.searchParams.get
\* returned; config is the record the response was built from, channel the
\* value interpolated into the Telegram address
ReqIdle ==
  [pc |-> "idle", route |-> "none", ua |-> <<>>, host |-> <<>>, ip |-> <<>>,
   force |-> Null, text |-> Null, target |-> Null,
   forceCountry |-> <<>>, country |-> <<>>, routing |-> <<>>, caught |-> FALSE,
   config |-> EmptyObj, channel |-> Undef,
   status |-> 0, kind |-> "none", location |-> <<>>,
   mode |-> <<>>, delay |-> Undef]

\* s has the substring p
Contains(s, p) == \E i \in 1..(Len(s) - Len(p) + 1) : SubSeq(s, i, i + Len(p) - 1) = p

\* The alternatives of botRegex
botNames ==
  { <<"f","a","c","e","b","o","o","k","e","x","t","e","r","n","a","l","h","i","t">>,
    <<"w","h","a","t","s","a","p","p">>,
    <<"t","w","i","t","t","e","r","b","o","t">>,
    <<"l","i","n","k","e","d","i","n","b","o","t">>,
    <<"s","l","a","c","k","b","o","t">>,
    <<"t","e","l","e","g","r","a","m","b","o","t">>,
    <<"d","i","s","c","o","r","d","b","o","t">>,
    <<"g","o","o","g","l","e","b","o","t">>,
    <<"b","i","n","g","b","o","t">>,
    <<"y","a","n","d","e","x","b","o","t">>,
    <<"b","a","i","d","u","s","p","i","d","e","r">>,
    <<"d","u","c","k","d","u","c","k","b","o","t">>,
    <<"a","p","p","l","e","b","o","t">>,
    <<"s","e","m","r","u","s","h","b","o","t">>,
    <<"a","h","r","e","f","s","b","o","t">>,
    <<"m","j","1","2","b","o","t">>,
    <<"d","o","t","b","o","t">>,
    <<"p","e","t","a","l","b","o","t">> }

botRegexCaseSensitive(userAgent) == \E name \in botNames : Contains(userAgent, name)

\* botRegex.test(userAgent): one of the names occurs, in any letter case
botRegex(userAgent) == \E name \in botNames : Contains(toLowerCase(userAgent), name)

\* String(v) as a template literal and Array.prototype.join make it
RECURSIVE NumToString(_)
NumToString(n) ==
  IF n < 10 THEN <<Digits10[n + 1]>> ELSE NumToString(n \div 10) \o <<Digits10[(n % 10) + 1]>>

Interpolate(v) ==
  CASE v.k = "str" -> v.s
    [] v.k = "num" -> NumToString(v.n)
    [] v.k = "null" -> <<"n","u","l","l">>
    [] OTHER -> <<"u","n","d","e","f","i","n","e","d">>

\* A code unit of a surrogate pair without its partner
LoneSurrogate == "<D800>"

\* The characters encodeURIComponent leaves as they are
Unreserved(c) == IsAlnum(c) \/ c \in {"-", "_", ".", "!", "~", "*", "'", "(", ")"}

\* The escape of a character that is not left as it is (the ASCII characters
\* the model's strings are made of)
Escape(c) ==
  CASE c = " " -> <<"%","2","0">>
    [] c = "\n" -> <<"%","0","A">>
    [] c = "\t" -> <<"%","0","9">>
    [] c = "?" -> <<"%","3","F">>
    [] c = "&" -> <<"%","2","6">>
    [] c = "=" -> <<"%","3","D">>
    [] c = "/" -> <<"%","2","F">>
    [] c = ":" -> <<"%","3","A">>
    [] c = "#" -> <<"%","2","3">>
    [] c = "+" -> <<"%","2","B">>
    [] c = "%" -> <<"%","2","5">>
    [] c = "@" -> <<"%","4","0">>
    [] c = "," -> <<"%","2","C">>
    [] c = "{" -> <<"%","7","B">>
    [] c = "}" -> <<"%","7","D">>

\* encodeURIComponent(s): ok is FALSE when it throws URIError
RECURSIVE encodeURIComponent(_)
encodeURIComponent(s) ==
  IF s = <<>> THEN [ok |-> TRUE, s |-> <<>>]
  ELSE IF Head(s) = LoneSurrogate THEN [ok |-> FALSE, s |-> <<>>]
  ELSE LET rest == encodeURIComponent(Tail(s))
           c == IF Unreserved(Head(s)) THEN <<Head(s)>> ELSE Escape(Head(s))
       IN [ok |-> rest.ok, s |-> IF rest.ok THEN c \o rest.s ELSE <<>>]

\* The host code points new URL() rejects
forbiddenHost == {" ", "<", ">", "[", "]", "^", "|"}

\* new URL(req.protocol + "://" + req.get("host") + req.originalUrl) returns
URLParses(host) == host # <<>> /\ \A i \in DOMAIN host : host[i] \notin forbiddenHost

\* url.searchParams.get(name) || ""
ParamOrEmpty(v) == IF Truthy(v) THEN v.s ELSE <<>>

\* [prefillText, customText].filter(Boolean).join(" ").trim()
JoinTexts(prefillText, customText) ==
  trim(CASE Truthy(prefillText) /\ customText # <<>> -> Interpolate(prefillText) \o <<" ">> \o customText
         [] Truthy(prefillText) -> Interpolate(prefillText)
         [] OTHER -> customText)

tmePrefix == <<"h","t","t","p","s",":","/","/","t",".","m","e","/">>

\* `https://t.me/${channel}${textParam}`; ok is FALSE when encodeURIComponent throws
TelegramUrl(channel, finalText) ==
  LET e == encodeURIComponent(finalText)
  IN IF finalText = <<>> THEN [ok |-> TRUE, s |-> tmePrefix \o Interpolate(channel)]
     ELSE [ok |-> e.ok,
           s |-> IF e.ok THEN tmePrefix \o Interpolate(channel) \o <<"?","t","e","x","t","=">> \o e.s
                 ELSE <<>>]

\* res.status(200).type('html').send(generateBotPreview())
BotPreview(r) == [r EXCEPT !.pc = "done", !.status = 200, !.kind = "preview"]

\* res.redirect(302, address)
Redirect(r, address) ==
  [r EXCEPT !.pc = "done", !.status = 302, !.kind = "redirect", !.location = address]

\* A call of getConfig that begins in the step in which the previous one returned
GetConfigAgain == [GetConfigBegin EXCEPT !.follows = Returned(cfg).follows]

\* GET /tg up to its first await: the bot check, the query, forceCountry, and
\* the call of getCountryCode or of getConfig
TgRequest(userAgent, host, force, text, reqIp) ==
  /\ req.pc = "idle" /\ geo.pc = "idle" /\ cfg.pc = "idle"
  /\ callsLeft > 0
  /\ callsLeft' = callsLeft - 1
  /\ LET ua == IF Truthy(userAgent) THEN userAgent.s ELSE <<>>
         ip == getClientIP(Undef, Undef, reqIp)
         forceCountry == toUpperCase(ParamOrEmpty(force))
         r == [ReqIdle EXCEPT !.route = "tg", !.ua = ua, !.host = host, !.ip = ip,
                              !.force = force, !.text = text]
     IN IF botRegex(ua)
          THEN /\ req' = BotPreview(r)
               /\ UNCHANGED <<geo, log, cfg>>
        ELSE IF ~URLParses(host)
          THEN /\ req' = [r EXCEPT !.pc = "catch_config", !.caught = TRUE]
               /\ cfg' = GetConfigBegin
               /\ UNCHANGED <<geo, log>>
        ELSE IF forceCountry # <<>>
          THEN /\ req' = [r EXCEPT !.pc = "config", !.forceCountry = forceCountry,
                                   !.country = IF forceCountry = TR THEN TR ELSE REST]
               /\ cfg' = GetConfigBegin
               /\ UNCHANGED <<geo, log>>
        ELSE LET n == GeoEntry([GeoIdle EXCEPT !.ip = ip], <<>>)
             IN /\ req' = [r EXCEPT !.pc = "geo"]
                /\ geo' = n.g
                /\ log' = n.lg
                /\ UNCHANGED cfg
  /\ UNCHANGED <<rt, ipinfoToken, settings, rlVars, redisVars, fresh, cachedConfig, cacheAge, cfg2, adm,
                 connectionAttempts, rm>>

\* country = await geoService.getCountryCode(ip) settles; getConfig is called
TgCountry ==
  /\ req.pc = "geo" /\ req.route = "tg"
  /\ geo.pc = "done"
  /\ geo' = [geo EXCEPT !.pc = "idle"]
  /\ fresh' = [prev |-> fresh.cur, cur |-> NoResolution]
  /\ IF geo.raised
       THEN req' = [req EXCEPT !.pc = "catch_config", !.caught = TRUE]
       ELSE req' = [req EXCEPT !.pc = "config", !.country = geo.ret.s]
  /\ cfg' = GetConfigBegin
  /\ UNCHANGED <<rt, ipinfoToken, settings, rlVars, redisVars, log, callsLeft, cachedConfig, cacheAge,
                 cfg2, adm, connectionAttempts, rm>>

\* config = await configStorage.getConfig() settles in the try block of /tg:
\* routing, channel, text and the redirect; a URIError of encodeURIComponent
\* lands in the catch block, which calls getConfig again
TgConfig ==
  /\ req.pc = "config" /\ req.route = "tg"
  /\ cfg.pc = "done"
  /\ LET config == cfg.ret.r
         routing == determineRouting(req.country, Str(req.forceCountry))
         isTurkey == routing = TR
         channel == IF isTurkey THEN config.telegram_channel_tr
                    ELSE config.telegram_channel_default
         prefillText == IF isTurkey THEN config.telegram_text_tr
                        ELSE config.telegram_text_default
         finalText == JoinTexts(prefillText, ParamOrEmpty(req.text))
         telegramUrl == TelegramUrl(channel, finalText)
         r == [req EXCEPT !.routing = routing, !.config = config, !.channel = channel]
     IN IF telegramUrl.ok
          THEN /\ req' = Redirect(r, telegramUrl.s)
               /\ cfg' = Returned(cfg)
          ELSE /\ req' = [r EXCEPT !.pc = "catch_config", !.caught = TRUE]
               /\ cfg' = GetConfigAgain
  /\ UNCHANGED <<rt, ipinfoToken, settings, rlVars, redisVars, geoVars, cachedConfig, cacheAge, cfg2, adm,
                 connectionAttempts, rm>>

\* The catch block of /tg after its getConfig settled
TgFallback ==
  /\ req.pc = "catch_config" /\ req.route = "tg"
  /\ cfg.pc = "done"
  /\ LET config == cfg.ret.r
         channel == config.telegram_channel_default
     IN req' = Redirect([req EXCEPT !.config = config, !.channel = channel],
                        tmePrefix \o Interpolate(channel))
  /\ cfg' = Returned(cfg)
  /\ UNCHANGED <<rt, ipinfoToken, settings, rlVars, redisVars, geoVars, cachedConfig, cacheAge, cfg2, adm,
                 connectionAttempts, rm>>

\* GET /website up to its first await
WebsiteRequest(userAgent, host, target) ==
  /\ req.pc = "idle" /\ geo.pc = "idle" /\ cfg.pc = "idle"
  /\ callsLeft > 0
  /\ callsLeft' = callsLeft - 1
  /\ LET ua == IF Truthy(userAgent) THEN userAgent.s ELSE <<>>
         r == [ReqIdle EXCEPT !.route = "website", !.ua = ua, !.host = host,
                              !.target = target]
     IN IF botRegex(ua)
          THEN /\ req' = BotPreview(r)
               /\ UNCHANGED cfg
        ELSE IF ~URLParses(host)
          THEN /\ req' = [r EXCEPT !.pc = "catch_config", !.caught = TRUE]
               /\ cfg' = GetConfigBegin
        ELSE /\ req' = [r EXCEPT !.pc = "config"]
             /\ cfg' = GetConfigBegin
  /\ UNCHANGED <<rt, ipinfoToken, settings, rlVars, redisVars, geo, log, fresh, cachedConfig, cacheAge,
                 cfg2, adm, connectionAttempts, rm>>

\* The delay of /website when config.redirect_delay is falsy
fallbackDelay == 3000

immediate == <<"i","m","m","e","d","i","a","t","e">>
delayed == <<"d","e","l","a","y","e","d">>
custom == <<"c","u","s","t","o","m">>

\* config = await configStorage.getConfig() settles in the try block of
\* /website; websiteUrl.substring throws on a value that is not a string.
\* mode is the branch taken, delay the redirectDelay that
\* generateDelayedRedirectPage puts on the page
WebsiteConfig ==
  /\ req.pc = "config" /\ req.route = "website"
  /\ cfg.pc = "done"
  /\ LET config == cfg.ret.r
         target == toLowerCase(ParamOrEmpty(req.target))
         websiteUrl == IF target \in {<<"t","u","r","k","e","y">>, <<"t","r">>}
                         THEN config.website_url_tr ELSE config.website_url_default
         redirectType == IF Truthy(config.redirect_type) THEN config.redirect_type
                         ELSE Str(immediate)
         redirectDelay == IF Truthy(config.redirect_delay) THEN config.redirect_delay
                          ELSE Num(fallbackDelay)
         r == [req EXCEPT !.config = config]
     IN IF websiteUrl.k # "str"
          THEN /\ req' = [r EXCEPT !.pc = "catch_config", !.caught = TRUE]
               /\ cfg' = GetConfigAgain
          ELSE /\ req' = IF redirectType = Str(delayed)
                           THEN [r EXCEPT !.pc = "done", !.status = 200, !.kind = "page",
                                          !.location = websiteUrl.s, !.mode = delayed,
                                          !.delay = redirectDelay]
                         ELSE IF redirectType = Str(custom)
                           THEN [r EXCEPT !.pc = "done", !.status = 200, !.kind = "page",
                                          !.location = websiteUrl.s, !.mode = custom]
                         ELSE [Redirect(r, websiteUrl.s) EXCEPT !.mode = immediate]
               /\ cfg' = Returned(cfg)
  /\ UNCHANGED <<rt, ipinfoToken, settings, rlVars, redisVars, geoVars, cachedConfig, cacheAge, cfg2, adm,
                 connectionAttempts, rm>>

\* The catch block of /website after its getConfig settled
WebsiteFallback ==
  /\ req.pc = "catch_config" /\ req.route = "website"
  /\ cfg.pc = "done"
  /\ LET config == cfg.ret.r
         fallbackUrl == IF Truthy(config.website_url_default)
                          THEN Interpolate(config.website_url_default)
                          ELSE <<"h","t","t","p","s",":","/","/","e","x","a","m","p","l","e",".","c","o","m">>
     IN req' = Redirect([req EXCEPT !.config = config], fallbackUrl)
  /\ cfg' = Returned(cfg)
  /\ UNCHANGED <<rt, ipinfoToken, settings, rlVars, redisVars, geoVars, cachedConfig, cacheAge, cfg2, adm,
                 connectionAttempts, rm>>

\* The response was sent; the next request can come
ReqClose ==
  /\ req.pc = "done"
  /\ req' = ReqIdle
  /\ UNCHANGED <<rt, ipinfoToken, settings, rlVars, redisVars, geoVars, cfgVars, connectionAttempts, rm>>

-----------------------------------------------------------------------------
(* RateLimiter, rateLimitMiddleware and adminRateLimitMiddleware            *)

\* this.windowMs and the configured limit, config.get('rateLimitMax')
windowMs == settings.rateLimitWindow.n
rateLimitMax == settings.rateLimitMax.n

\* The limit of the admin routes: Math.min(10, originalMaxRequests)
adminMaxRequests == 10

\* req.ip of the client of the model, and the client ids getClientId can give it
clientIp == "203.0.113.7"
adminToken == <<"s","e","c","r","e","t">>
ClientIds == {<<"client", clientIp>>, <<"admin", clientIp, adminToken>>}

adminPrefix == <<"/","a","d","m","i","n">>

\* app.use('/admin', ...) runs its middleware for /admin and the paths below it
Mounted(path) ==
  /\ StartsWith(path, adminPrefix)
  /\ Len(path) > Len(adminPrefix) => path[Len(adminPrefix) + 1] = "/"

\* req.path as a middleware sees it: below app.use('/admin', ...) the mount
\* path is stripped
PathSeen(r) ==
  IF r.stage = "admin"
    THEN IF Len(r.path) > Len(adminPrefix)
           THEN SubSeq(r.path, Len(adminPrefix) + 1, Len(r.path)) ELSE <<"/">>
    ELSE r.path

\* getClientId(req); token is req.query.token, <<>> when the query has none
getClientId(path, token) ==
  IF StartsWith(path, adminPrefix) /\ token # <<>>
    THEN <<"admin", clientIp, token>>
    ELSE <<"client", clientIp>>

\* A request in the middleware: stage is the middleware that called checkLimit
\* ("global" for app.use(rateLimitMiddleware), "admin" for
\* adminRateLimitMiddleware), at is the now of checkLimit, limit the value of
\* this.maxRequests the count was compared with (-1: no comparison), outcome
\* "429" or "next"
RlIdle ==
  [pc |-> "idle", path |-> <<>>, token |-> <<>>, stage |-> "none", clientId |-> <<>>,
   at |-> 0, originalMaxRequests |-> 0, limit |-> -1, current |-> 0,
   allowed |-> FALSE, outcome |-> "none"]

Slots == {1, 2}

\* requests.filter(timestamp => timestamp > windowStart)
ValidRequests(requests, windowStart) ==
  SelectSeq(requests, LAMBDA timestamp : timestamp > windowStart)

\* cleanupMemoryStore(now); a client id without timestamps is a deleted entry
cleanupMemoryStore(store, t) ==
  [id \in ClientIds |-> ValidRequests(store[id], t - windowMs)]

\* checkLimitMemory(clientId, now, windowStart) with this.maxRequests = max;
\* cleanup: Math.random() < 0.01
checkLimitMemory(store, max, clientId, t, windowStart, cleanup) ==
  LET validRequests == ValidRequests(store[clientId], windowStart)
      allowed == Len(validRequests) < max
      stored == IF allowed THEN [store EXCEPT ![clientId] = Append(validRequests, t)]
                ELSE store
  IN [store |-> IF cleanup THEN cleanupMemoryStore(stored, t) ELSE stored,
      allowed |-> allowed, current |-> Len(validRequests) + 1, limit |-> max]

\* zremrangebyscore(key, 0, windowStart) on the scores of a sorted set
ZRemRangeByScore(scores, windowStart) ==
  SelectSeq(scores, LAMBDA score : ~(0 <= score /\ score <= windowStart))

\* The event loop turn of a request: m.max is this.maxRequests, m.store the
\* memoryStore, m.adm the allowed checks, m.r the request, m.conn
\* redisManager.isConnected, m.cleanup the draw of Math.random
RECURSIVE Then(_, _)

\* checkLimit(req) up to its await: with the client connected the pipeline is
\* sent, otherwise checkLimitMemory decides at once and the promise's then
\* callback runs before any other request is handled
checkLimit(m) ==
  LET clientId == getClientId(PathSeen(m.r), m.r.token)
      r == [m.r EXCEPT !.clientId = clientId, !.at = now]
  IN IF m.conn
       THEN [m EXCEPT !.r = [r EXCEPT !.pc = "exec"]]
       ELSE LET c == checkLimitMemory(m.store, m.max, clientId, now, now - windowMs,
                                      m.cleanup)
            IN Then([m EXCEPT !.r = r, !.store = c.store],
                    [allowed |-> c.allowed, current |-> c.current, limit |-> c.limit])

\* adminRateLimitMiddleware up to the await of its check: remember
\* this.maxRequests, lower it, call rateLimitMiddleware
adminRateLimitMiddleware(m) ==
  checkLimit([m EXCEPT !.max = IF adminMaxRequests < m.max
                                 THEN adminMaxRequests ELSE m.max,
                       !.r = [m.r EXCEPT !.stage = "admin",
                                         !.originalMaxRequests = m.max]])

\* The request r after the middleware is through with it: the response 429, or
\* next(); the closures of the middleware are gone
Finished(r, outcome) ==
  [RlIdle EXCEPT !.pc = "done", !.path = r.path, !.token = r.token, !.stage = r.stage,
                 !.clientId = r.clientId, !.at = r.at, !.limit = r.limit, !.allowed = r.allowed, !.outcome = outcome]

\* The then callback of rateLimitMiddleware with the limitInfo checkLimit
\* resolved to: 429 without calling next, or next(): for the admin middleware
\* the callback that restores this.maxRequests, for the global one the admin
\* middleware when the path is mounted under /admin, else the routers
Then(m, limitInfo) ==
  LET r == [m.r EXCEPT !.allowed = limitInfo.allowed, !.current = limitInfo.current,
                       !.limit = limitInfo.limit]
      checks == IF limitInfo.allowed
                  THEN [m.adm EXCEPT ![r.clientId] = Append(@, r.at)] ELSE m.adm
  IN IF ~limitInfo.allowed
       THEN [m EXCEPT !.r = Finished(r, "429"), !.adm = checks]
     ELSE IF r.stage = "admin"
       THEN [m EXCEPT !.r = Finished(r, "next"), !.adm = checks,
                      !.max = r.originalMaxRequests]
     ELSE IF Mounted(r.path)
       THEN adminRateLimitMiddleware([m EXCEPT !.r = r, !.adm = checks])
     ELSE [m EXCEPT !.r = Finished(r, "next"), !.adm = checks]

\* The state after the turn m of the request in slot s; a pipeline that was
\* sent joins the commands in flight
Turn(m, s, queue) ==
  /\ maxRequests' = m.max
  /\ memoryStore' = m.store
  /\ admitted' = m.adm
  /\ rl' = [reqs |-> [rl.reqs EXCEPT ![s] = m.r],
            queue |-> IF m.r.pc = "exec" THEN Append(queue, s) ELSE queue]

\* A request arrives: app.use(rateLimitMiddleware).  It takes the first slot
\* that holds no request in flight
RlRequest(s, path, token) ==
  /\ callsLeft > 0
  /\ rl.reqs[s].pc # "exec"
  /\ \A other \in Slots : other < s => rl.reqs[other].pc = "exec"
  /\ callsLeft' = callsLeft - 1
  /\ \E cleanup \in BOOLEAN :
       Turn(checkLimit([max |-> maxRequests, store |-> memoryStore, adm |-> admitted,
                        r |-> [RlIdle EXCEPT !.path = path, !.token = token,
                                             !.stage = "global"],
                        conn |-> isConnected, cleanup |-> cleanup]),
            s, rl.queue)
  /\ UNCHANGED <<rt, ipinfoToken, settings, svcVars, redisVars, geo, log, fresh, cfgVars,
                 rateSets, now>>

\* checkLimitRedis after its await: the pipeline of the oldest check in flight
\* was executed (ok) or failed, and checkLimit's catch allows the request; then
\* the then callback.  EXPIRE lets the key go no earlier than a window after its
\* newest score, when ZREMRANGEBYSCORE would empty it anyway
RlPipelineExec(s) ==
  /\ rl.queue # <<>> /\ Head(rl.queue) = s
  /\ \E ok \in BOOLEAN, cleanup \in BOOLEAN :
       LET r == rl.reqs[s]
           kept == ZRemRangeByScore(rateSets[r.clientId], r.at - windowMs)
           currentRequests == Len(kept)
           limitInfo == IF ok
                          THEN [allowed |-> currentRequests < maxRequests,
                                current |-> currentRequests + 1, limit |-> maxRequests]
                          ELSE [allowed |-> TRUE, current |-> 0, limit |-> -1]
       IN /\ rateSets' = IF ok THEN [rateSets EXCEPT ![r.clientId] = Append(kept, r.at)]
                         ELSE rateSets
          /\ Turn(Then([max |-> maxRequests, store |-> memoryStore, adm |-> admitted,
                        r |-> r, conn |-> isConnected, cleanup |-> cleanup], limitInfo),
                  s, Tail(rl.queue))
  /\ UNCHANGED <<rt, ipinfoToken, settings, svcVars, redisVars, geoVars, cfgVars, now>>

\* A millisecond passes
ClockTick ==
  /\ now < MaxNow
  /\ now' = now + 1
  /\ UNCHANGED <<rt, ipinfoToken, settings, svcVars, redisVars, geoVars, cfgVars,
                 maxRequests, memoryStore, rateSets, rl, admitted>>

\* new RateLimiter(); earlier: the scores the backend holds for the client's
\* requests that an earlier run of the service allowed
InitRateLimiterWith(earlier) ==
  /\ maxRequests = rateLimitMax
  /\ memoryStore = [id \in ClientIds |-> <<>>]
  /\ rateSets = [id \in ClientIds |-> IF id = <<"client", clientIp>> THEN earlier ELSE <<>>]
  /\ now = 0
  /\ rl = [reqs |-> [s \in Slots |-> RlIdle], queue |-> <<>>]
  /\ admitted = rateSets

InitRateLimiter == InitRateLimiterWith(<<>>)

-----------------------------------------------------------------------------
(* The specification of the geo-resolution engine *)

InitCommonIn(environments) ==
  /\ ipinfoToken = Token
  /\ settings \in environments
  /\ client \in BOOLEAN
  /\ isConnected = FALSE
  /\ redisData = [key \in Keys |-> NoEntry]
  /\ memoryFallback = [key \in Keys |-> NoVal]
  /\ timers = [key \in Keys |-> 0]
  /\ geo = GeoIdle
  /\ log = <<>>
  /\ fresh = FreshNone
  /\ cachedConfig = NullConfig
  /\ cacheAge = cacheTTL * 1000
  /\ cfg = CfgIdle
  /\ cfg2 = CfgIdle
  /\ adm = AdmIdle
  /\ connectionAttempts = 0
  /\ rm = RmIdle
  /\ req = ReqIdle

InitCommon == InitCommonIn({builtinSettings}) /\ InitRateLimiter

RtOff == [pc |-> "off", c |-> <<>>, f |-> Undef, result |-> <<>>]

InitGeo == InitCommon /\ rt = RtOff /\ callsLeft = MaxCalls

NextGeo ==
  \/ \E ip \in ClientIPs : GeoStart(ip)
  \/ GetCachedCountry
  \/ HttpReject
  \/ TimerAbort
  \/ \E ok \in BOOLEAN : HttpHeaders(ok)
  \/ \E body \in Bodies : BodyArrives(body)
  \/ CacheCountry
  \/ FbReject
  \/ \E ok \in BOOLEAN : FbHeaders(ok)
  \/ \E body \in Bodies : FbBody(body)
  \/ TgRoute
  \/ RedisConnect
  \/ RedisError
  \/ \E key \in Keys : TimerFire(key)
  \/ \E key \in Keys : RedisExpire(key)
  \/ \E value \in {<<>>, Token} : ConfigManagerSet(value)

SpecGeo == InitGeo /\ [][NextGeo]_vars

\* The scheduling the runtime guarantees: a settled store command resumes its
\* caller, an armed timer fires, a returned call reaches its caller.  Nothing
\* obliges a remote HTTP endpoint to answer.
FairSpecGeo ==
  /\ SpecGeo
  /\ WF_vars(GetCachedCountry)
  /\ WF_vars(TimerAbort)
  /\ WF_vars(CacheCountry)
  /\ WF_vars(TgRoute)

-----------------------------------------------------------------------------
(* The specification of determineRouting over bounded inputs *)

RtCountries == {<<>>, TR, <<"t","r">>, US, REST}
RtForces ==
  {Undef, Null} \cup {Str(s) : s \in StringsUpTo({"t","T","r","R","x"}, MaxForceLen)}

InitRouting ==
  /\ InitCommon
  /\ callsLeft = 0
  /\ rt \in [pc : {"call"}, c : RtCountries, f : RtForces, result : {<<>>}]

\* geoService.determineRouting(c, f)
DetermineRoutingCall ==
  /\ rt.pc = "call"
  /\ rt' = [rt EXCEPT !.pc = "done", !.result = determineRouting(rt.c, rt.f)]
  /\ UNCHANGED <<ipinfoToken, settings, rlVars, svcVars, redisVars, geoVars, cfgVars>>

NextRouting == DetermineRoutingCall

SpecRouting == InitRouting /\ [][NextRouting]_vars

-----------------------------------------------------------------------------
(* Claims about the routing decision and the geo-resolution engine *)

\* The spellings of "TR" in any letter case
AnyCaseTR == {<<"T","R">>, <<"t","r">>, <<"T","r">>, <<"t","R">>}

\* C1: determineRouting(c, f) returns exactly 'TR' or 'REST'; with a non-empty
\* override f the result is 'TR' iff f is "TR" in some letter case, whatever c
\* is; with f absent or empty the result is 'TR' iff c is 'TR'.
C1_DetermineRoutingTotal ==
  rt.pc = "done" =>
    /\ rt.result \in {TR, REST}
    /\ (rt.f.k = "str" /\ rt.f.s # <<>>) => (rt.result = TR <=> rt.f.s \in AnyCaseTR)
    /\ (rt.f.k # "str" \/ rt.f.s = <<>>) => (rt.result = TR <=> rt.c = TR)

C1_Witness ==
  rt.pc = "done" /\ rt.f = Str(<<"t","r">>) /\ rt.c = US /\ rt.result = TR

\* C2: getCountryCode(ip) always returns a non-empty string and never raises,
\* whatever the cache, the IP format, the providers and the self-lookup do.
C2_GetCountryCodeTotal ==
  /\ ~geo.raised
  /\ geo.pc = "done" => (geo.ret.k = "str" /\ geo.ret.s # <<>>)

C2_Witness ==
  /\ geo.pc = "done" /\ geo.ip = IpMalformed /\ geo.ret = Str(REST)
  /\ \E i \in DOMAIN log : log[i].name = "self"

\* The addresses of the private, loopback and link-local ranges among ClientIPs
NonRoutable == {IpEmpty, IpLoopback, IpPrivate172, IpV6Local}

\* C3: for an empty or private IP getCountryCode reads no cache and queries no
\* provider; the only external call it may make is the self-lookup.
C3_PrivateIpNoProvider ==
  geo.ip \in NonRoutable =>
    \A i \in DOMAIN log : log[i].op = "http" /\ log[i].name = "self"

C3_Witness ==
  geo.pc = "done" /\ geo.ip = IpPrivate172 /\ Len(log) = 1 /\ log[1].name = "self"

\* C4: after getCountryCode(X) returned Y obtained from a provider, the
\* immediately following getCountryCode(X) returns Y from the cache and asks no
\* provider, whichever backend served the cache write.
C4_SecondCallHitsCache ==
  (geo.pc = "done" /\ fresh.prev.ok /\ fresh.prev.ip = geo.ip) =>
    /\ geo.src = "cache"
    /\ geo.ret = Str(fresh.prev.country)
    /\ \A i \in DOMAIN log : log[i].op \notin {"query", "http"}

\* The entries of a log with a given op
Entries(lg, op) == SelectSeq(lg, LAMBDA e : e.op = op)

\* C5: on a cache miss providers are queried in the order ipinfo, ipapi, ip-api,
\* each only after every earlier one answered nothing; no failure raises; the
\* first non-empty code is written to the cache under geo_<ip> with the
\* configured TTL and returned, and no later provider is queried.
C5_ProviderFailover ==
  LET order == <<"ipinfo", "ipapi", "ip-api">>
      queries == Entries(log, "query")
      answers == Entries(log, "answer")
      sets == Entries(log, "set")
      key == <<"g","e","o","_">> \o geo.ip
  IN /\ ~geo.raised
     /\ Len(queries) <= 3
     /\ \A i \in DOMAIN queries : queries[i].name = order[i]
     /\ Len(queries) > 0 => (log[1].op = "get" /\ log[1].key = key)
     \* provider i + 1 is asked only after provider i answered nothing
     /\ \A i \in DOMAIN queries :
          i > 1 => (Len(answers) >= i - 1 /\ answers[i - 1].name = order[i - 1]
                                         /\ answers[i - 1].val = <<>>)
     \* a non-empty answer is the last answer and closes the queries
     /\ \A i \in DOMAIN answers :
          answers[i].val # <<>> =>
            /\ i = Len(answers) /\ i = Len(queries)
            /\ geo.pc \in {"cacheCountry", "done", "idle"}
            /\ geo.pc \in {"done", "idle"} =>
                 /\ sets = <<[op |-> "set", name |-> "cache", key |-> key,
                              val |-> answers[i].val, ttl |-> 86400]>>
                 /\ log[Len(log)].op = "set"
                 /\ geo.ret = Str(answers[i].val)
     \* nothing is written without a non-empty answer
     /\ sets # <<>> => (answers # <<>> /\ answers[Len(answers)].val # <<>>)

C5_Witness ==
  /\ geo.pc = "done" /\ geo.ip = IpGoogle /\ geo.ret = Str(US)
  /\ Len(Entries(log, "query")) = 3
  /\ Len(Entries(log, "set")) = 1

\* A self-lookup answer that carries no country
NoCountry(body) ==
  \/ body.k \in {"null", "str"}
  \/ body.k = "obj" /\ body.country \in {Undef, Null, Str(<<>>)}

HasSelfLookup(lg) == \E i \in DOMAIN lg : lg[i].op = "http" /\ lg[i].name = "self"

\* C6: getFallbackCountry returns exactly 'REST' when no ipinfo token is
\* configured (and then makes no HTTP call), when the self-lookup errors or
\* answers non-2xx, and when the answer carries no country; it never throws.
C6_FallbackRest ==
  /\ [](~geo.raised)
  /\ []((geo.pc = "done" /\ geo.src = "fallback" /\ ~HasSelfLookup(log))
          => geo.ret = Str(REST))
  /\ [][(geo.src # "fallback" /\ geo'.src = "fallback" /\ ipinfoToken = <<>>)
          => (geo'.pc = "done" /\ geo'.ret = Str(REST) /\ ~HasSelfLookup(log'))]_vars
  /\ [][(geo.pc = "fb_pending" /\ geo'.pc = "done") => geo'.ret = Str(REST)]_vars
  /\ [][(geo.pc = "fb_body" /\ geo'.pc = "done" /\ NoCountry(geo'.data))
          => geo'.ret = Str(REST)]_vars

C6_Witness ==
  /\ geo.pc = "done" /\ geo.src = "fallback" /\ geo.ret = Str(REST)
  /\ ipinfoToken = <<>> /\ ~HasSelfLookup(log)
  /\ Len(Entries(log, "query")) = 3

\* C7: if the IP lookup fails (every provider fails for the visitor's public
\* IP), the request is routed to the default non-TR (REST) destination.
C7_LookupFailureRoutesRest ==
  (/\ geo.pc = "idle" /\ geo.routing # <<>>
   /\ Len(Entries(log, "answer")) = 3
   /\ \A i \in DOMAIN log : log[i].op = "answer" => log[i].val = <<>>)
    => geo.routing = REST

\* C8: every getCountryCode call eventually returns, even when an external
\* HTTP endpoint never answers or never finishes its body.
C8_GetCountryCodeReturns == [](geo.pc # "idle" => <>(geo.pc = "done"))

-----------------------------------------------------------------------------
(* The specification of the configuration store *)

\* A text one character longer than validateText allows
RECURSIVE Repeat(_, _)
Repeat(c, n) ==
  IF n = 0 THEN <<>>
  ELSE LET h == Repeat(c, n \div 2) IN h \o h \o (IF n % 2 = 1 THEN <<c>> ELSE <<>>)
LongText == Repeat("a", maxLength + 1)

\* The fields validateConfiguration checks
CheckedFields == FieldSet \ {"redirect_message"}

\* For each checked field, a value its validator rejects
BadValue(f) ==
  CASE f = "number_default" -> Str(<<"0","1","2","3">>)
    [] f = "number_tr" -> Str(<<>>)
    [] f \in {"text_default", "text_tr", "telegram_text_default", "telegram_text_tr"} ->
         Str(LongText)
    [] f = "telegram_channel_default" -> Str(<<"a","b">>)
    [] f = "telegram_channel_tr" -> Str(<<"b","a","d","-","c","h","a","n">>)
    [] f = "website_url_default" -> Str(<<"f","t","p",":","/","/","a",".","i","o">>)
    [] f = "website_url_tr" -> Str(<<"h","t","t","p",":","/","/","a">>)
    [] f = "redirect_type" -> Str(<<"o","t","h","e","r">>)
    [] OTHER -> Num(maxDelay + 1)

\* config with the fields of S replaced by rejected values
Spoil(config, S) == [f \in FieldSet |-> IF f \in S THEN BadValue(f) ELSE config[f]]

\* A record every validator accepts, in the forms the validators clean up
altConfig ==
  [number_default |-> Str(<<"+","9","0"," ","5","5","5"," ","1","2","3">>),
   number_tr |-> Str(<<"9","0","5","5","5","1","2","3","4","5","6","7">>),
   text_default |-> Str(<<>>),
   text_tr |-> Str(<<"S","e","l","a","m">>),
   telegram_channel_default |-> Str(<<"@","c","h","a","n","_","1">>),
   telegram_channel_tr |-> Str(<<"c","h","a","n","_","t","r">>),
   telegram_text_default |-> Null,
   telegram_text_tr |-> Str(<<"S","e","l","a","m">>),
   website_url_default |-> Str(<<"h","t","t","p",":","/","/","w","w","w",".","a",".","i","o","/","x","?","y","=","1">>),
   website_url_tr |-> Str(<<"h","t","t","p","s",":","/","/","a",".","c","o","m",".","t","r">>),
   redirect_type |-> Str(<<"D","E","L","A","Y","E","D">>),
   redirect_delay |-> Str(<<"3","0","0","0","0">>),
   redirect_message |-> Str(<<"w","a","i","t">>)]

\* The record of the validation tests: the four required fields only
sparseConfig ==
  [EmptyObj EXCEPT !.number_default = Str(<<"1","2","3","4","5","6","7","8","9","0">>),
                   !.number_tr = Str(<<"1","2","3","4","5","6","7","8","9","0">>),
                   !.text_default = Str(<<"H","e","l","l","o">>),
                   !.text_tr = Str(<<"M","e","r","h","a","b","a">>)]

\* A record with values that are not strings, as a JSON body can carry them
typedConfig ==
  [builtinConfig EXCEPT !.number_default = Num(1234567),
                        !.telegram_channel_tr = Num(12345),
                        !.website_url_tr = Num(1),
                        !.redirect_type = Num(1),
                        !.redirect_delay = Str(<<" ","-","1">>),
                        !.text_tr = Num(5)]

\* The records the model passes to setConfig
NewConfigs ==
  {altConfig, sparseConfig, typedConfig,
   Spoil(builtinConfig, {"number_tr", "website_url_default"})}

\* The partial records the model passes to updateConfig
Updates ==
  { [NoUpdates EXCEPT !.number_default = Str(<<"0","1","2","3">>)],
    [NoUpdates EXCEPT !.number_tr = Str(<<"9","0","5","5","5","1","2","3","4","5","6","7">>)],
    [NoUpdates EXCEPT !.number_default = Str(<<"0","1","2","3">>), !.telegram_channel_tr = Str(<<"a","b">>)],
    [NoUpdates EXCEPT !.redirect_delay = Num(maxDelay + 1)] }

\* A stored text that JSON.parse rejects
Unparsable == StrVal(<<"{">>)

\* The durable backend may hold a record an earlier run of the service stored,
\* or a text that is not a serialized record
InitConfigIn(environments) ==
  /\ rt = RtOff
  /\ ipinfoToken = Token
  /\ settings \in environments
  /\ InitRateLimiter
  /\ client \in BOOLEAN
  /\ isConnected = FALSE
  /\ \E v \in {NoVal, JsonVal(stringify(altConfig)), Unparsable} :
       redisData = [key \in Keys |-> IF key = configKey /\ client
                                       THEN [v |-> v, exp |-> FALSE] ELSE NoEntry]
  /\ memoryFallback = [key \in Keys |-> NoVal]
  /\ timers = [key \in Keys |-> 0]
  /\ geo = GeoIdle
  /\ log = <<>>
  /\ fresh = FreshNone
  /\ callsLeft = 0
  /\ cachedConfig = NullConfig
  /\ cacheAge = cacheTTL * 1000
  /\ cfg = CfgIdle
  /\ cfg2 = CfgIdle
  /\ adm = AdmIdle
  /\ connectionAttempts = 0
  /\ rm = RmIdle
  /\ req = ReqIdle

InitConfig == InitConfigIn({builtinSettings})

NextConfig ==
  \/ GetConfigCall
  \/ GetConfigRead
  \/ \E newConfig \in NewConfigs : SetConfigCall(newConfig)
  \/ SetConfigWrite
  \/ \E updates \in Updates : UpdateConfigCall(updates)
  \/ UpdateConfigRead
  \/ ResetConfigCall
  \/ CfgReturn
  \/ Advance
  \/ RedisConnect
  \/ RedisError

SpecConfig == InitConfig /\ [][NextConfig]_vars

-----------------------------------------------------------------------------
(* The specification of setConfig over records with invalid fields *)

\* The defaults with up to MaxInvalid fields, or every field, replaced by a
\* rejected value, and the records above
SpoiledConfigs ==
  {Spoil(builtinConfig, S) : S \in {T \in SUBSET CheckedFields : Cardinality(T) <= MaxInvalid}}
    \cup {Spoil(builtinConfig, CheckedFields),
          Spoil(sparseConfig, {"number_default", "redirect_delay"}),
          altConfig, sparseConfig, typedConfig}

NextValidation ==
  \/ \E newConfig \in SpoiledConfigs : SetConfigCall(newConfig)
  \/ SetConfigWrite
  \/ CfgReturn
  \/ RedisConnect
  \/ RedisError

SpecValidation == InitConfig /\ [][NextValidation]_vars

-----------------------------------------------------------------------------
(* Claims about the configuration store *)

\* The fields of a record whose check applies and whose validator rejects the value
InvalidFields(config) == {f \in CheckedFields : Applies(f, config) /\ ~FieldCheck(f, config).ok}

\* C9: setConfig on a record with invalid fields raises one ValidationError
\* that holds one violation entry for every invalid field, not only the first;
\* a record with no invalid field raises nothing and is returned.
C9_ValidationListsEveryField ==
  (cfg.op = "setConfig" /\ cfg.pc = "done") =>
    LET bad == InvalidFields(cfg.arg)
    IN IF bad = {}
         THEN cfg.err = "none" /\ cfg.errors = <<>> /\ cfg.ret = ObjConfig(cfg.arg)
         ELSE /\ cfg.err = "ValidationError"
              /\ cfg.ret = NullConfig
              /\ Len(cfg.errors) = Cardinality(bad)
              /\ \A f \in bad : \E i \in DOMAIN cfg.errors :
                   cfg.errors[i] = FieldCheck(f, cfg.arg).err

C9_Witness ==
  /\ cfg.op = "setConfig" /\ cfg.pc = "done" /\ cfg.err = "ValidationError"
  /\ InvalidFields(cfg.arg) = CheckedFields
  /\ Len(cfg.errors) = 12
  /\ cfg.errors[1] = <<"default", "number must be 7-15 digits and not start with 0">>
  /\ cfg.errors[12] = <<"redirect delay", "must be a number between 0 and 30000 milliseconds">>

-----------------------------------------------------------------------------
(* The specification of the admin configuration route *)

\* The bodies the model posts
PostBodies ==
  { NoBody,
    [NoBody EXCEPT !.tr_number = Str(<<"0","1","2","3">>),
                   !.tr_telegram_channel = Str(<<"a","b">>)],
    [NoBody EXCEPT !.tr_number = Str(<<"5","5","5"," ","1","2","3"," ","4","5","6","7">>)],
    [NoBody EXCEPT !.default_number = Str(<<"5","5","5","1","2","3","4","5","6","7">>),
                   !.default_country_code = Str(<<"+","1">>),
                   !.default_text = Str(<<"H","i">>)],
    [NoBody EXCEPT !.tr_text = Str(LongText),
                   !.default_telegram_channel = Str(<<"b","a","d","-","c","h","a","n">>),
                   !.default_telegram_text = Str(LongText)],
    [NoBody EXCEPT !.tr_number = Str(<<"1","2","3","4","5","6","7","8","9","0","1","2","3","4","5">>),
                   !.default_telegram_channel = Str(<<"@","c","h","a","n","_","1">>)] }

NextAdmin ==
  \/ \E body \in PostBodies : AdminPostConfig(body)
  \/ UpdateConfigRead
  \/ SetConfigWrite
  \/ AdminRespond
  \/ AdminClose
  \/ Advance
  \/ RedisConnect
  \/ RedisError

SpecAdmin == InitConfig /\ [][NextAdmin]_vars

\* The body fields the route validates and whose validator rejects the value
InvalidBodyFields(body) ==
  {b \in Range(BodyOrder) : RouteApplies(b, body) /\ ~RouteCheck(b, body).ok}

\* C11: the response to a POST /admin/api/config whose body has invalid fields
\* is one 400 error that names every invalid field, not only the first one met.
C11_AdminErrorNamesEveryField ==
  (adm.pc = "responded" /\ InvalidBodyFields(adm.body) # {}) =>
    /\ adm.status = 400
    /\ \A b \in InvalidBodyFields(adm.body) :
         \E i \in DOMAIN adm.errors : adm.errors[i] = RouteCheck(b, adm.body).err

\* C12: a getConfig that follows an accepted setConfig(r), made once the cache
\* has expired and with the backend connected or not as it was when r was
\* written, returns a record equal to r.
C12_SetThenGetRoundTrip ==
  (/\ cfg.op = "getConfig" /\ cfg.pc = "done"
   /\ cfg.follows.op = "setConfig" /\ ~cfg.before.hit
   /\ cfg.follows.conn = UsesRedis)
    => cfg.ret = ObjConfig(cfg.follows.val)

\* The record a call submits to validation
Submitted(c) ==
  CASE c.op = "updateConfig" -> Merge(c.cur, c.arg)
    [] c.op = "resetConfig" -> defaultConfig
    [] OTHER -> c.arg

\* A call that wrote the configuration has completed without an error
Saved(c) == c.pc = "done" /\ c.err = "none" /\ c.op \in {"setConfig", "updateConfig", "resetConfig"}

\* The record the write of a completed call left in the store: in the durable
\* backend when its command succeeded, in the fallback map otherwise
Persisted(c) ==
  LoadConfig(IF c.sent /\ c.saved THEN redisData[configKey].v ELSE memoryFallback[configKey])

\* The shapes of the stored fields; a field that is not defined has no shape
PhoneShape(v) == v.k = "str" /\ phoneNumberRegex(v.s)
ChannelShape(v) == v.k = "undef" \/ (v.k = "str" /\ telegramChannelRegex(v.s))
UrlShape(v) == v.k = "undef" \/ (v.k = "str" /\ websiteUrlRegex(v.s))
DelayShape(v) == v.k = "undef" \/ (v.k = "num" /\ v.n \in 0..maxDelay)
WellShaped(r) ==
  /\ PhoneShape(r.number_default) /\ PhoneShape(r.number_tr)
  /\ ChannelShape(r.telegram_channel_default) /\ ChannelShape(r.telegram_channel_tr)
  /\ UrlShape(r.website_url_default) /\ UrlShape(r.website_url_tr)
  /\ DelayShape(r.redirect_delay)

\* C13: after a setConfig, updateConfig or resetConfig that succeeded, the
\* cached record and the persisted record have both numbers made of 7 to 15
\* digits not starting with 0, every Telegram channel of 5 to 32 word
\* characters, every website URL of HTTP/HTTPS shape and redirect_delay an
\* integer in 0..30000.
C13_StoredRecordWellShaped ==
  Saved(cfg) => /\ cachedConfig.k = "obj" /\ WellShaped(cachedConfig.r)
                /\ WellShaped(Persisted(cfg))

\* C14: every record getConfig returns has every configuration field defined.
C14_GetConfigFullyPopulated ==
  (cfg.op = "getConfig" /\ cfg.pc = "done") =>
    /\ cfg.ret.k = "obj"
    /\ \A f \in FieldSet : cfg.ret.r[f].k # "undef"

\* C15: when setConfig or updateConfig accepts a record whose redirect_type is
\* 'immediate', 'delayed' or 'custom' in any letter case, the returned, cached
\* and persisted redirect_type is that value in lower case.
C15_RedirectTypeLowerCase ==
  (Saved(cfg) /\ cfg.op # "resetConfig" /\ Submitted(cfg).redirect_type.k = "str"
     /\ toLowerCase(Submitted(cfg).redirect_type.s) \in validTypes) =>
    LET type == Str(toLowerCase(Submitted(cfg).redirect_type.s))
    IN /\ cfg.ret.r.redirect_type = type
       /\ cachedConfig.r.redirect_type = type
       /\ Persisted(cfg).redirect_type = type

-----------------------------------------------------------------------------
(* The specification of validateRedirectDelay over bounded inputs *)

\* The delays the model validates: undefined, null, integers around the ends
\* of the range, and the strings of up to MaxDelayLen characters
DelayNumbers == {0 - 1, 0, 1, defaultDelay, maxDelay - 1, maxDelay, maxDelay + 1}
DelayInputs ==
  {Undef, Null} \cup {Num(n) : n \in DelayNumbers}
    \cup {Str(s) : s \in StringsUpTo({"0", "3", "a", "-", " "}, MaxDelayLen)}
    \cup {Str(<<"3","0","0","0","0">>), Str(<<"3","0","0","0","1">>),
          Str(<<"1","2","a","b","c">>), Str(<<"a","b","c">>)}

InitDelay ==
  /\ InitCommon
  /\ callsLeft = 0
  /\ rt \in [pc : {"call"}, c : {<<>>}, f : DelayInputs, result : {<<>>}]

\* validateRedirectDelay(f)
ValidateRedirectDelayCall ==
  /\ rt.pc = "call"
  /\ rt' = [rt EXCEPT !.pc = "validated",
                      !.result = validateRedirectDelay(rt.f, Label("redirect_delay"))]
  /\ UNCHANGED <<ipinfoToken, settings, rlVars, svcVars, redisVars, geoVars, cfgVars>>

NextDelay == ValidateRedirectDelayCall

SpecDelay == InitDelay /\ [][NextDelay]_vars

\* The integer a delay denotes: a number, or a string that is, white space
\* around it aside, an optional sign and decimal digits
DelayDigits(s) ==
  LET t == trim(s) IN IF t # <<>> /\ Head(t) \in {"+", "-"} THEN Tail(t) ELSE t
IsInteger(v) ==
  \/ v.k = "num"
  \/ v.k = "str" /\ DelayDigits(v.s) # <<>> /\ \A i \in DOMAIN DelayDigits(v.s) : IsDigit(DelayDigits(v.s)[i])
IntegerOf(v) ==
  IF v.k = "num" THEN v.n
  ELSE IF Head(trim(v.s)) = "-" THEN 0 - DigitsValue(DelayDigits(v.s))
  ELSE DigitsValue(DelayDigits(v.s))

\* C16: validateRedirectDelay returns 3000 for undefined and null, returns the
\* integer itself for the integers 0..30000, and rejects every other value:
\* integers outside the range and values that are not integers.
C16_RedirectDelayRange ==
  rt.pc = "validated" =>
    IF rt.f.k \in {"undef", "null"} THEN rt.result = Return(Num(defaultDelay))
    ELSE IF IsInteger(rt.f) /\ IntegerOf(rt.f) \in 0..maxDelay
      THEN rt.result = Return(Num(IntegerOf(rt.f)))
    ELSE ~rt.result.ok

\* C17: a getConfig made less than 300 s after the cache was filled returns the
\* cached record and does not read the store; one made with an empty cache or
\* with a cache 300 s old or older reads the store once, caches what it
\* returns, and returns the environment defaults when the stored value is
\* missing or does not parse.
C17_GetConfigCacheWindow ==
  (cfg.op = "getConfig" /\ cfg.pc = "done") =>
    IF cfg.before.cache.k = "obj" /\ cfg.before.recent
      THEN /\ cfg.reads = 0
           /\ cfg.ret = cfg.before.cache
           /\ cachedConfig = cfg.before.cache
      ELSE /\ cfg.reads = 1
           /\ cfg.err = "none"
           /\ cachedConfig = cfg.ret
           /\ \E v \in {cfg.before.durable.v, cfg.before.mem} :
                cfg.ret = ObjConfig(IF v.k = "json" THEN parse(v.r) ELSE defaultConfig)
           /\ (cfg.before.durable.v.k # "json" /\ cfg.before.mem.k # "json") =>
                cfg.ret = ObjConfig(defaultConfig)

C17_Witness ==
  /\ cfg.op = "getConfig" /\ cfg.pc = "done" /\ cfg.reads = 1
  /\ cfg.before.cache = ObjConfig(altConfig) /\ ~cfg.before.recent
  /\ cfg.before.durable.v = Unparsable /\ cfg.before.mem.k = "json"
  /\ UsesRedis
  /\ cfg.ret = ObjConfig(defaultConfig) /\ cachedConfig = ObjConfig(defaultConfig)

\* C18: resetConfig returns the environment defaults, and so the same record
\* when called twice in a row; when it returns, the cache holds the defaults
\* and, the backend being connected or not as the call found it, the record
\* loaded from the store is the defaults too.
C18_ResetConfigIdempotent ==
  (cfg.op = "resetConfig" /\ cfg.pc = "done") =>
    /\ cfg.err = "none"
    /\ cfg.ret = ObjConfig(defaultConfig)
    /\ cfg.follows.op = "resetConfig" => cfg.ret = ObjConfig(cfg.follows.val)
    /\ cachedConfig = ObjConfig(defaultConfig)
    /\ cfg.sent = UsesRedis => LoadConfig(RedisGet(configKey, TRUE)) = defaultConfig

-----------------------------------------------------------------------------
(* The specification of two concurrent setConfig calls *)

\* setConfig(newConfig), called while the setConfig call of cfg awaits its write
SetConfigCallConcurrent(newConfig) ==
  /\ cfg2.pc = "idle"
  /\ cfg.op = "setConfig" /\ cfg.pc = "set_write"
  /\ LET c == [CfgIdle EXCEPT !.op = "setConfig", !.arg = newConfig, !.before = Snapshot]
         n == SetConfigBegin(c, newConfig, cachedConfig, cacheAge)
     IN /\ cfg2' = n.cfg /\ cachedConfig' = n.cache /\ cacheAge' = n.age
        /\ memoryFallback' = SetIssue(n.cfg)
  /\ UNCHANGED <<rt, ipinfoToken, settings, rlVars, svcVars, client, isConnected, redisData, timers, geoVars, cfg, adm>>

\* The write of the later call settles; the client answers its commands in the
\* order they were sent, so a command of the earlier call settles first
SetConfigWriteConcurrent ==
  /\ cfg2.pc = "set_write"
  /\ cfg2.sent => ~(cfg.pc = "set_write" /\ cfg.sent)
  /\ \E ok \in BOOLEAN :
       /\ ~cfg2.sent => ok
       /\ (cfg2.sent /\ ok) => isConnected
       /\ LET w == SetSettle(cfg2, ok)
          IN /\ redisData' = w.data /\ memoryFallback' = w.mem
             /\ cfg2' = [cfg2 EXCEPT !.pc = "done", !.ret = ObjConfig(cfg2.val), !.saved = w.ret]
  /\ UNCHANGED <<rt, ipinfoToken, settings, rlVars, svcVars, client, isConnected, timers, geoVars,
                 cachedConfig, cacheAge, cfg, adm>>

\* Both calls have returned to their callers
CfgReturnBoth ==
  /\ cfg.pc = "done" /\ cfg2.pc = "done"
  /\ cfg' = Returned(cfg)
  /\ cfg2' = CfgIdle
  /\ UNCHANGED <<rt, ipinfoToken, settings, rlVars, svcVars, redisVars, geoVars, cachedConfig, cacheAge, adm>>

\* Both calls have settled and not yet returned
BothDone == cfg.pc = "done" /\ cfg2.pc = "done"

\* A call that wrote the fallback map resumes, or both calls return, before the
\* event loop handles the next event of the client
Resuming ==
  \/ BothDone
  \/ cfg.pc = "set_write" /\ ~cfg.sent
  \/ cfg2.pc = "set_write" /\ ~cfg2.sent

\* The records of the earlier and of the later call
EarlierConfigs == {altConfig, sparseConfig}
LaterConfigs == {builtinConfig, sparseConfig}

\* A call starts in the first slot when no later call is still running
NextRace ==
  \/ \E newConfig \in EarlierConfigs : cfg2.pc = "idle" /\ SetConfigCall(newConfig)
  \/ \E newConfig \in LaterConfigs : SetConfigCallConcurrent(newConfig)
  \/ SetConfigWrite
  \/ SetConfigWriteConcurrent
  \/ cfg2.pc = "idle" /\ CfgReturn
  \/ CfgReturnBoth
  \/ ~Resuming /\ RedisConnect
  \/ ~Resuming /\ RedisError

SpecRace == InitConfig /\ [][NextRace]_vars

\* C19: when setConfig(A) and then setConfig(B) run concurrently and the store
\* adapter reports both writes as done, each call returns its own record and,
\* once both have completed, the cache and the record loaded from the store
\* both hold B.
C19_ConcurrentSetLastWins ==
  (BothDone /\ cfg.saved /\ cfg2.saved) =>
    /\ cfg.ret = ObjConfig(cfg.arg) /\ cfg2.ret = ObjConfig(cfg2.arg)
    /\ cachedConfig = ObjConfig(cfg2.arg)
    /\ LoadConfig(RedisGet(configKey, TRUE)) = cfg2.arg

\* C20: a setConfig whose write command was handed to the connected backend
\* and failed raises StorageError to its caller and returns no record.
C20_FailedWriteRaisesStorageError ==
  (cfg.op = "setConfig" /\ cfg.pc = "done" /\ cfg.sent /\ ~cfg.saved) =>
    cfg.err = "StorageError" /\ cfg.ret = NullConfig

-----------------------------------------------------------------------------
(* The specification of the key-value store adapter *)

\* The key, values and ttl (seconds, 0 for none) of the model's calls
RmKeys == {GeoKey(IpGoogle)}
RmValues == {StrVal(TR), StrVal(US)}
RmTtls == {0, geoCacheTTL}
RmOps == {"get", "set", "del", "exists"}

NextRedis ==
  \/ \E op \in RmOps, key \in RmKeys, value \in RmValues, ttl \in RmTtls :
       /\ timers[key] < MaxTimers
       /\ op # "set" => (value = StrVal(TR) /\ ttl = 0)
       /\ ManagerCall(op, key, value, ttl)
  \/ ManagerCall("healthCheck", <<>>, NoVal, 0)
  \/ ManagerReturn
  \/ RedisConnect
  \/ RedisError
  \/ RedisReconnecting
  \/ \E key \in Keys : TimerFire(key)
  \/ \E key \in Keys : RedisExpire(key)

SpecRedis == InitGeo /\ [][NextRedis]_vars

-----------------------------------------------------------------------------
(* Claims about the key-value store adapter *)

\* C21: get, set, del and exists never raise to the caller; when the durable
\* command fails or the backend is not connected, the durable backend is left
\* alone and the call is served by the fallback map: get returns what the map
\* holds or null, set writes the map, del removes the key from it, exists
\* tells whether the map has the key; each returns a value or a boolean.
C21_ManagerNeverRaises ==
  [][(rm.pc = "idle" /\ rm'.pc = "done" /\ rm'.op \in {"get", "set", "del", "exists"}) =>
       /\ ~rm'.raised
       /\ rm'.ret.k = (IF rm'.op = "get" THEN "value" ELSE "bool")
       /\ ~rm'.ok =>
            /\ redisData' = redisData
            /\ CASE rm'.op = "get" ->
                      rm'.ret.v = (IF memoryFallback[rm'.key] \in {NoVal, StrVal(<<>>)}
                                     THEN NoVal ELSE memoryFallback[rm'.key])
                 [] rm'.op = "set" -> memoryFallback'[rm'.key] = rm'.value
                 [] rm'.op = "del" -> memoryFallback'[rm'.key] = NoVal
                 [] OTHER -> rm'.ret.b = (memoryFallback[rm'.key] # NoVal)]_vars

C21_Witness ==
  /\ rm.pc = "done" /\ rm.op = "get" /\ rm.conn /\ ~rm.ok
  /\ rm.ret = ValRet(StrVal(TR))
  /\ redisData[rm.key].v = StrVal(US)

\* C22: in fallback mode a value written with set(key, value, ttl) is removed
\* by the removal that the most recent set of that key scheduled, ttl seconds
\* after it: a removal scheduled by an earlier set, which comes due first,
\* never deletes a value that a later set wrote.
C22_FallbackTtlFromLastSet ==
  [][\A key \in Keys :
       (timers'[key] < timers[key] /\ memoryFallback[key] # NoVal
          /\ memoryFallback'[key] = NoVal) => timers[key] = 1]_vars

\* C23: healthCheck never throws; it returns 'healthy' of type 'redis' when the
\* client is connected and PING succeeds, 'degraded' of type 'memory' when the
\* manager runs on the fallback (no client, or a client that is not
\* connected), and 'unhealthy' when the client is connected and PING fails.
C23_HealthCheckStatus ==
  [][(rm.pc = "idle" /\ rm'.pc = "done" /\ rm'.op = "healthCheck") =>
       /\ ~rm'.raised
       /\ rm'.ret.k = "health"
       /\ IF ~client \/ ~isConnected
            THEN rm'.ret.status = "degraded" /\ rm'.ret.type = "memory"
            ELSE IF rm'.ok
              THEN rm'.ret.status = "healthy" /\ rm'.ret.type = "redis"
              ELSE rm'.ret.status = "unhealthy"]_vars

C23_Witness ==
  /\ rm.pc = "done" /\ rm.op = "healthCheck" /\ rm.conn /\ ~rm.ok
  /\ rm.ret = Health("unhealthy", "error")

\* C24: connectionAttempts never exceeds maxRetries while the backend stays
\* unreachable; a 'connect' event sets it to 0, and the get and set calls made
\* while connected go to the durable backend.
C24_ReconnectAttemptsBounded ==
  /\ [](connectionAttempts <= maxRetries)
  /\ [][(~isConnected /\ isConnected') => connectionAttempts' = 0]_vars
  /\ [][(rm.pc = "idle" /\ rm'.pc = "done" /\ rm'.op \in {"get", "set"}
           /\ client /\ isConnected) => rm'.conn]_vars

-----------------------------------------------------------------------------
(* Further claims about the geo-resolution engine *)

\* The addresses among ClientIPs that are well-formed IPv4 or IPv6 addresses
\* outside the private, loopback and link-local ranges
RoutableIPs == {IpGoogle, IpPublic172, IpV6Compressed}

\* C29: getCountryCode skips the cache and the providers only for the empty IP
\* and the private, loopback and link-local ones; for every other address,
\* 2001:db8::1 included, it reads the cache first and comes to the self-lookup
\* only after it queried the providers.
C29_OnlyNonRoutableSkipsCache ==
  (geo.pc # "idle" /\ geo.ip \in RoutableIPs) =>
    /\ geo.pc = "getCached" \/ (log # <<>> /\ log[1].op = "get")
    /\ geo.src = "fallback" => Entries(log, "query") # <<>>

\* C30: when the first provider failed and ipapi answers 2xx with a plain-text
\* body that holds a country code, that code, trimmed and in upper case, is
\* the country getCountryCode goes on to cache and return, and the third
\* provider is not queried.
C30_IpapiPlainTextAnswer ==
  [][(geo.pc = "body_pending" /\ providers[geo.idx] = "ipapi" /\ geo'.pc # "body_pending"
        /\ geo'.data.k = "text" /\ trim(geo'.data.s) # <<>>) =>
       /\ geo'.pc = "cacheCountry"
       /\ geo'.country = toUpperCase(trim(geo'.data.s))
       /\ \A i \in DOMAIN log' : log'[i].op = "query" => log'[i].name # "ip-api"]_vars

-----------------------------------------------------------------------------
(* The specification of getClientIP over sample requests *)

XffHeaders ==
  {Undef, Str(<<>>), Str(<<" ">>), Str(<<"2","0","3",".","0",".","1","1","3",".","1",","," ","7","0",".","4","1",".","3",".","1","8">>),
   Str(<<" ","1",".","1",".","1",".","1"," ",",","2",".","2",".","2",".","2">>), Str(<<",","1",".","1",".","1",".","1">>), Str(IpGoogle)}
XripHeaders == {Undef, Str(<<>>), Str(<<"9",".","9",".","9",".","9">>)}
ReqIps ==
  {Undef, Str(<<>>), Str(<<":",":","f","f","f","f",":","1","2","7",".","0",".","0",".","1">>), Str(<<"1",".","2",".","3",".","4">>),
   Str(<<"2","0","0","1",":","d","b","8",":",":","f","f","f","f",":","1">>), Str(<<":",":","1">>)}

InitClientIP ==
  /\ InitCommon
  /\ callsLeft = 0
  /\ rt \in [pc : {"call"}, xff : XffHeaders, xrip : XripHeaders, ip : ReqIps, result : {<<>>}]

\* geoService.getClientIP(req)
GetClientIPCall ==
  /\ rt.pc = "call"
  /\ rt' = [rt EXCEPT !.pc = "extracted", !.result = getClientIP(rt.xff, rt.xrip, rt.ip)]
  /\ UNCHANGED <<ipinfoToken, settings, rlVars, svcVars, redisVars, geoVars, cfgVars>>

NextClientIP == GetClientIPCall

SpecClientIP == InitClientIP /\ [][NextClientIP]_vars

\* C27: getClientIP returns the first comma-separated entry of
\* X-Forwarded-For (white space around it aside) when the header is there and
\* that entry is not empty; otherwise X-Real-IP when it is there and not
\* empty; otherwise the connection address with a leading '::ffff:' removed,
\* and the empty string when there is no connection address.
C27_ClientIpExtraction ==
  rt.pc = "extracted" =>
    LET entry == IF rt.xff.k = "str" THEN trim(Split(rt.xff.s, ",")[1]) ELSE <<>>
        address == IF rt.ip.k = "str" THEN rt.ip.s ELSE <<>>
    IN rt.result =
         IF entry # <<>> THEN entry
         ELSE IF rt.xrip.k = "str" /\ rt.xrip.s # <<>> THEN rt.xrip.s
         ELSE IF StartsWith(address, <<":",":","f","f","f","f",":">>)
           THEN SubSeq(address, 8, Len(address))
         ELSE address

-----------------------------------------------------------------------------
(* The specification of the redirect routes /tg and /website *)

\* A record whose Turkish Telegram text holds half a surrogate pair, as the
\* JSON body {"telegram_text_tr": "\ud800"} carries it
surrogateConfig == [builtinConfig EXCEPT !.telegram_text_tr = Str(<<LoneSurrogate>>)]

\* A record with a delayed redirect page
delayedConfig == [builtinConfig EXCEPT !.redirect_type = Str(delayed)]

\* The records an administrator may have saved before the requests come:
\* whatever validateConfiguration accepts
SavedConfigs ==
  {validateConfiguration(c).val :
     c \in {c \in {sparseConfig, surrogateConfig, delayedConfig} : validateConfiguration(c).ok}}

TgUserAgents == {Undef, Str(<<"M","o","z","i","l","l","a","/","5",".","0">>), Str(<<"W","h","a","t","s","A","p","p","/","2",".","2","3">>)}
TgHosts == {<<"e","x","a","m","p","l","e",".","c","o","m">>, <<"a"," ","b">>}
TgForces == {Null, Str(<<"t","r">>), Str(<<"T","r">>), Str(US)}
TgTexts == {Null, Str(<<"h","i"," ","&","u">>)}
TgReqIps == {Str(IpGoogle), Str(IpLoopback)}
TgBodies == {Obj(Str(<<"t","r">>), Undef), Obj(Undef, Str(<<"u","s">>)), JNull}
WebsiteTargets == {Null, Str(TR), Str(US)}

InitTgWith(saved) ==
  /\ rt = RtOff
  /\ ipinfoToken = Token
  /\ settings = builtinSettings
  /\ InitRateLimiter
  /\ client \in BOOLEAN
  /\ isConnected = FALSE
  /\ \E v \in {NoVal} \cup {JsonVal(stringify(c)) : c \in saved} :
       redisData = [key \in Keys |-> IF key = configKey /\ client
                                       THEN [v |-> v, exp |-> FALSE] ELSE NoEntry]
  /\ memoryFallback = [key \in Keys |-> NoVal]
  /\ timers = [key \in Keys |-> 0]
  /\ geo = GeoIdle
  /\ log = <<>>
  /\ fresh = FreshNone
  /\ callsLeft = MaxCalls
  /\ cachedConfig = NullConfig
  /\ cacheAge = cacheTTL * 1000
  /\ cfg = CfgIdle
  /\ cfg2 = CfgIdle
  /\ adm = AdmIdle
  /\ connectionAttempts = 0
  /\ rm = RmIdle
  /\ req = ReqIdle

InitTg == InitTgWith(SavedConfigs)

NextTg ==
  \/ \E userAgent \in TgUserAgents, host \in TgHosts, force \in TgForces,
        text \in TgTexts, reqIp \in TgReqIps :
       TgRequest(userAgent, host, force, text, reqIp)
  \/ TgCountry
  \/ TgConfig
  \/ TgFallback
  \/ \E userAgent \in TgUserAgents, host \in TgHosts, target \in WebsiteTargets :
       WebsiteRequest(userAgent, host, target)
  \/ WebsiteConfig
  \/ WebsiteFallback
  \/ ReqClose
  \/ GetConfigRead
  \/ GetCachedCountry
  \/ HttpReject
  \/ TimerAbort
  \/ \E ok \in BOOLEAN : HttpHeaders(ok)
  \/ \E body \in TgBodies : BodyArrives(body)
  \/ CacheCountry
  \/ FbReject
  \/ \E ok \in BOOLEAN : FbHeaders(ok)
  \/ \E body \in TgBodies : FbBody(body)
  \/ RedisConnect
  \/ RedisError

SpecTg == InitTg /\ [][NextTg]_vars

-----------------------------------------------------------------------------
(* Claims about the redirect routes *)

\* C28: a request to /tg or /website whose User-Agent holds one of the bot
\* names, in any letter case, is answered at once with status 200 and the
\* HTML preview page, never with a redirect; answering it reads no cache
\* entry, queries no provider, makes no self-lookup and calls no getConfig,
\* and nothing but the end of the request follows the answer.
C28_BotGetsPreview ==
  /\ [][(req.pc = "idle" /\ req'.pc # "idle"
         /\ \E name \in botNames : Contains(toLowerCase(req'.ua), name))
        => /\ req'.route \in {"tg", "website"}
           /\ req'.pc = "done" /\ req'.status = 200 /\ req'.kind = "preview"
           /\ req'.location = <<>>
           /\ geo' = geo /\ log' = log /\ fresh' = fresh
           /\ cfg' = cfg /\ cachedConfig' = cachedConfig
           /\ redisData' = redisData /\ memoryFallback' = memoryFallback]_vars
  /\ [][(req.pc = "done" /\ req.kind = "preview") => req' \in {req, ReqIdle}]_vars

C28_Witness ==
  /\ req.pc = "done" /\ req.route = "tg" /\ req.ua = <<"W","h","a","t","s","A","p","p","/","2",".","2","3">>
  /\ req.status = 200 /\ req.kind = "preview"
  /\ Truthy(req.force) /\ isConnected /\ redisData[configKey].v # NoVal

\* C25: a /tg request that is not from a bot, whose address parses and whose
\* force parameter is not empty, is answered with the routing decision TR
\* when force is TR in any letter case and REST otherwise, and is redirected
\* to the Turkey channel of the record getConfig returned in the first case
\* and to its default channel in the second; while the request is in flight
\* the geo call does not move: no cache read, no provider query, no
\* self-lookup.
C25_ForcedOverride ==
  /\ [][(req.pc # "done" /\ req'.pc = "done" /\ req'.route = "tg"
         /\ req'.kind # "preview" /\ URLParses(req'.host) /\ Truthy(req'.force))
        => LET tr == toUpperCase(req'.force.s) = TR
               field == IF tr THEN "telegram_channel_tr" ELSE "telegram_channel_default"
           IN /\ req'.routing = (IF tr THEN TR ELSE REST)
              /\ req'.channel = req'.config[field]
              /\ req'.status = 302
              /\ StartsWith(req'.location, tmePrefix \o Interpolate(req'.config[field]))]_vars
  /\ [][(req'.pc # "idle" /\ req'.route = "tg" /\ req'.kind # "preview"
         /\ URLParses(req'.host) /\ Truthy(req'.force))
        => (geo.pc = "idle" /\ geo' = geo /\ log' = log)]_vars

\* C26: whatever record is stored and however geo resolution went, a /tg
\* request that is not from a bot is answered with a 302 redirect, and the
\* address it redirects to is https://t.me/ followed by the Turkey channel or
\* the default channel of the record getConfig returned, that field being
\* a channel name.
C26_TgAlwaysRedirectsToChannel ==
  [][(req.pc # "done" /\ req'.pc = "done" /\ req'.route = "tg" /\ req'.kind # "preview")
     => /\ req'.status = 302 /\ req'.kind = "redirect"
        /\ \E f \in {"telegram_channel_tr", "telegram_channel_default"} :
             /\ req'.config[f].k = "str"
             /\ telegramChannelRegex(req'.config[f].s)
             /\ StartsWith(req'.location, tmePrefix \o req'.config[f].s)]_vars

-----------------------------------------------------------------------------
(* Further claims about RedisManager *)

\* C31: a get(key) that is the next thing to happen after set(key, value) has
\* returned, true or false, with a non-empty value, returns value.  The
\* formula states it for the gets whose own command, when one is sent, succeeds.
C31_GetAfterSetReturnsValue ==
  [][(rm.pc = "idle" /\ rm'.pc = "done" /\ rm'.op = "get"
      /\ rm.last.op = "set" /\ rm.last.key = rm'.key /\ Present(rm.last.value)
      /\ (rm'.conn => rm'.ok))
     => rm'.ret = ValRet(rm.last.value)]_vars

\* C32: a get or an exists called while the client is connected never answers
\* from an entry that only the fallback map holds: get returns null and exists
\* returns false for a key the durable backend does not have.
C32_FallbackInvisibleWhenConnected ==
  [][(rm.pc = "idle" /\ rm'.pc = "done" /\ rm'.op \in {"get", "exists"} /\ rm'.conn
      /\ redisData[rm'.key].v = NoVal /\ memoryFallback[rm'.key] # NoVal)
     => rm'.ret = (IF rm'.op = "get" THEN ValRet(NoVal) ELSE BoolRet(FALSE))]_vars

-----------------------------------------------------------------------------
(* Further claims about the geo cache *)

\* C33: a geo_<ip> entry of the backend or of the fallback map gets a value
\* only in the cacheCountry step of a resolution of that ip that a provider
\* answered, and the value is the non-empty country parsed from that
\* provider's answer; a resolution that ends with the cached value, with the
\* self-lookup result or with 'REST' writes no entry and makes no set call.
C33_CacheWrittenOnlyFromProvider ==
  /\ [][\A key \in Keys \ {configKey} :
          ((redisData'[key] # redisData[key] /\ redisData'[key].v # NoVal)
           \/ (memoryFallback'[key] # memoryFallback[key] /\ memoryFallback'[key] # NoVal))
          => /\ geo.pc = "cacheCountry" /\ key = GeoKey(geo.ip)
             /\ geo.src = "none"
             /\ geo.country # <<>>
             /\ geo.country = ProviderCountry(providers[geo.idx], geo.data)
             /\ StrVal(geo.country) \in {redisData'[key].v, memoryFallback'[key]}
             /\ log[Len(log)] = Ev("answer", providers[geo.idx], geo.ip, geo.country, 0)]_vars
  /\ [][(geo.pc # "done" /\ geo'.pc = "done" /\ geo'.src \in {"cache", "fallback"})
        => /\ UNCHANGED <<redisData, memoryFallback, timers>>
           /\ Entries(log', "set") = <<>>]_vars

C33_Witness ==
  /\ geo.pc = "done" /\ geo.src = "provider" /\ geo.ip = IpGoogle
  /\ geo.data = Obj(Undef, Str(<<"u","s">>)) /\ geo.ret = Str(US)
  /\ redisData[GeoKey(IpGoogle)].v = StrVal(US)

-----------------------------------------------------------------------------
(* The specification of a setConfig that runs while a getConfig awaits its read *)

\* setConfig(newConfig), called while the getConfig call of cfg awaits
\* redisManager.get over the connected client
SetConfigCallDuringGet(newConfig) ==
  /\ cfg2.pc = "idle"
  /\ cfg.op = "getConfig" /\ cfg.pc = "get_read"
  /\ UsesRedis
  /\ LET c == [CfgIdle EXCEPT !.op = "setConfig", !.arg = newConfig, !.before = Snapshot]
         n == SetConfigBegin(c, newConfig, cachedConfig, cacheAge)
     IN /\ cfg2' = n.cfg /\ cachedConfig' = n.cache /\ cacheAge' = n.age
        /\ memoryFallback' = SetIssue(n.cfg)
  /\ UNCHANGED <<rt, ipinfoToken, settings, rlVars, svcVars, client, isConnected, redisData, timers, geoVars, cfg, adm>>

\* getConfig calls begin over the connected client; the client answers its
\* commands in the order they were sent, so the read of the getConfig settles
\* before the write of the setConfig that began after it
NextStale ==
  \/ UsesRedis /\ GetConfigCall
  \/ GetConfigRead
  \/ \E newConfig \in NewConfigs : SetConfigCallDuringGet(newConfig)
  \/ cfg.pc # "get_read" /\ SetConfigWriteConcurrent
  \/ CfgReturn
  \/ ~Resuming /\ RedisConnect
  \/ ~Resuming /\ RedisError

SpecStale == InitConfig /\ [][NextStale]_vars

\* C34: once setConfig(r) has completed with its write reported as done, a
\* getConfig called after it, there being no other write, returns r, also
\* when a getConfig that began before the setConfig finished its store read
\* in between.
C34_OlderReadNeverReplacesNewerRecord ==
  [][(cfg2.op = "setConfig" /\ cfg2.pc = "done" /\ cfg2.err = "none" /\ cfg2.saved
      /\ cfg.pc = "idle" /\ cfg'.op = "getConfig" /\ cfg'.pc = "done")
     => cfg'.ret = cfg2.ret]_vars

-----------------------------------------------------------------------------
(* The specification of two concurrent updateConfig calls *)

\* updateConfig(updates), called while the updateConfig call of cfg awaits a
\* command of the client: over a fresh cache it merges and calls setConfig at
\* once, otherwise it awaits its own store read
UpdateConfigCallConcurrent(updates) ==
  /\ cfg2.pc = "idle"
  /\ cfg.op = "updateConfig"
  /\ cfg.pc = "upd_read" \/ (cfg.pc = "set_write" /\ cfg.sent)
  /\ LET call == [CfgIdle EXCEPT !.op = "updateConfig", !.arg = updates, !.before = Snapshot]
     IN IF CacheHit
          THEN LET c == [call EXCEPT !.cur = cachedConfig.r]
                   n == SetConfigBegin(c, Merge(c.cur, updates), cachedConfig, cacheAge)
               IN /\ cfg2' = n.cfg /\ cachedConfig' = n.cache /\ cacheAge' = n.age
                  /\ memoryFallback' = SetIssue(n.cfg)
          ELSE /\ cfg2' = [call EXCEPT !.pc = "upd_read", !.reads = 1]
               /\ UNCHANGED <<cachedConfig, cacheAge, memoryFallback>>
  /\ UNCHANGED <<rt, ipinfoToken, settings, rlVars, svcVars, client, isConnected, redisData, timers, geoVars, cfg, adm>>

\* the store read of the later call settles, after the read of the earlier one
UpdateConfigReadConcurrent ==
  /\ cfg2.pc = "upd_read"
  /\ cfg.pc # "upd_read"
  /\ \E ok \in BOOLEAN :
       LET loaded == LoadConfig(RedisGet(configKey, ok))
           c == [cfg2 EXCEPT !.cur = loaded]
           n == SetConfigBegin(c, Merge(loaded, cfg2.arg), ObjConfig(loaded), 0)
       IN /\ cfg2' = n.cfg /\ cachedConfig' = n.cache /\ cacheAge' = n.age
          /\ memoryFallback' = SetIssue(n.cfg)
  /\ UNCHANGED <<rt, ipinfoToken, settings, rlVars, svcVars, client, isConnected, redisData, timers, geoVars, cfg, adm>>

\* The disjoint changes of the two calls
helloText == Str(<<"H","i">>)
selamText == Str(<<"S","e","l","a","m">>)
EarlierUpdates == {[NoUpdates EXCEPT !.text_default = helloText]}
LaterUpdates == {[NoUpdates EXCEPT !.text_tr = selamText],
                 [NoUpdates EXCEPT !.telegram_text_tr = selamText]}

\* The earlier call begins over the connected client; the client answers its
\* commands in the order they were sent
NextLost ==
  \/ \E updates \in EarlierUpdates : cfg2.pc = "idle" /\ UsesRedis /\ UpdateConfigCall(updates)
  \/ UpdateConfigRead
  \/ \E updates \in LaterUpdates : UpdateConfigCallConcurrent(updates)
  \/ UpdateConfigReadConcurrent
  \/ cfg2.pc # "upd_read" /\ SetConfigWrite
  \/ SetConfigWriteConcurrent
  \/ ~Resuming /\ RedisConnect
  \/ ~Resuming /\ RedisError

SpecLost == InitConfig /\ [][NextLost]_vars

\* Both updateConfig calls have returned a record, and redisManager.set
\* reported both writes as done
BothUpdated ==
  /\ cfg.op = "updateConfig" /\ cfg.pc = "done" /\ cfg.err = "none" /\ cfg.saved
  /\ cfg2.op = "updateConfig" /\ cfg2.pc = "done" /\ cfg2.err = "none" /\ cfg2.saved

-----------------------------------------------------------------------------
(* The specification of resetConfig and updateConfig over environments      *)

\* ConfigManager.validateConfiguration on the fields getConfig and resetConfig
\* read (ADMIN_TOKEN, IPINFO_TOKEN and PORT are set and in range): it checks
\* the two numbers and the two channels, no other field
ConfigurationValid(s) ==
  /\ phoneNumberRegex(s.number_default.s)
  /\ phoneNumberRegex(s.number_tr.s)
  /\ telegramChannelRegex(s.telegram_channel_default.s)
  /\ telegramChannelRegex(s.telegram_channel_tr.s)

\* DEFAULT_REDIRECT_TYPE=popup, REDIRECT_DELAY=30001 and
\* TURKEY_WHATSAPP_NUMBER=0123
popupSettings == [builtinSettings EXCEPT !.redirect_type = Str(<<"p","o","p","u","p">>)]
slowSettings == [builtinSettings EXCEPT !.redirect_delay = Num(maxDelay + 1)]
zeroSettings == [builtinSettings EXCEPT !.number_tr = Str(<<"0","1","2","3">>)]

\* The environments the service starts with: the constructor throws on the others
Environments ==
  {s \in {builtinSettings, popupSettings, slowSettings, zeroSettings} : ConfigurationValid(s)}

InitReset == InitConfigIn(Environments)

NextReset ==
  \/ ResetConfigCall
  \/ \E updates \in Updates : UpdateConfigCall(updates)
  \/ UpdateConfigRead
  \/ SetConfigWrite
  \/ CfgReturn
  \/ Advance
  \/ RedisConnect
  \/ RedisError

SpecReset == InitReset /\ [][NextReset]_vars

\* The record an updateConfig or resetConfig call passes to setConfig
Passed(c) == IF c.op = "resetConfig" THEN defaultConfig ELSE Merge(c.cur, c.arg)

\* C36: when setConfig rejects the record updateConfig or resetConfig passes to
\* it, the caller of updateConfig or resetConfig gets the ValidationError
\* itself: that type, with the messages of the fields that failed
C36_ValidationErrorReachesCaller ==
  [][(cfg.pc # "done" /\ cfg'.pc = "done" /\ cfg'.op \in {"updateConfig", "resetConfig"}
        /\ ~validateConfiguration(Passed(cfg')).ok)
       => /\ cfg'.err = "ValidationError"
          /\ cfg'.errors = validateConfiguration(Passed(cfg')).errors]_vars

-----------------------------------------------------------------------------
(* The specification of the rate limiter                                    *)

LimitSettings(max) ==
  [builtinSettings EXCEPT !.rateLimitWindow = Num(shortWindow), !.rateLimitMax = Num(max)]

\* /wa, and /admin/api/config?token=secret
waPath == <<"/","w","a">>
adminConfigPath == <<"/","a","d","m","i","n","/","a","p","i","/","c","o","n","f","i","g">>
RlRequests ==
  {[path |-> waPath, token |-> <<>>], [path |-> adminConfigPath, token |-> adminToken]}

\* Ten requests of the client at time 0, all allowed
tenRequests == [i \in 1..adminMaxRequests |-> 0]

\* With the larger limit the backend may hold the ten requests
InitLimit ==
  /\ InitCommonIn({LimitSettings(smallMax), LimitSettings(largeMax)})
  /\ rt = RtOff
  /\ callsLeft = MaxRlRequests
  /\ \E earlier \in {<<>>, tenRequests} :
       /\ earlier # <<>> => client /\ rateLimitMax = largeMax
       /\ InitRateLimiterWith(earlier)

NextLimit ==
  \/ \E s \in Slots, q \in RlRequests : RlRequest(s, q.path, q.token)
  \/ \E s \in Slots : RlPipelineExec(s)
  \/ ClockTick
  \/ RedisConnect
  \/ RedisError

SpecLimit == InitLimit /\ [][NextLimit]_vars

\* An admin request is in adminRateLimitMiddleware, waiting for its check
AdminCheckInFlight == \E s \in Slots : rl.reqs[s].pc = "exec" /\ rl.reqs[s].stage = "admin"

\* C37: the count of a request outside /admin is compared with the configured
\* rateLimitMax, also while an admin check is in flight, and whenever no admin
\* check is in flight this.maxRequests is the configured rateLimitMax again,
\* whether the admin requests were let through or answered with 429
C37_NonAdminJudgedAgainstConfiguredMax ==
  /\ \A s \in Slots :
       (rl.reqs[s].pc = "done" /\ ~Mounted(rl.reqs[s].path) /\ rl.reqs[s].limit # -1)
         => rl.reqs[s].limit = rateLimitMax
  /\ ~AdminCheckInFlight => maxRequests = rateLimitMax

\* The checks of client id that were allowed at a time in the window that ends at t
AllowedInWindow(id, t) ==
  Cardinality({i \in DOMAIN admitted[id] : admitted[id][i] > t - windowMs /\ admitted[id][i] <= t})

\* C38: in no window of windowMs were more than the configured maxRequests
\* requests of one client allowed, with the backend or with the memory store,
\* and a request is answered 429 only when maxRequests allowed requests of its
\* client lie in the window that ends at the request (a request that is allowed
\* while they do would be one too many in that window)
C38_AtMostMaxRequestsPerWindow ==
  /\ [](\A id \in ClientIds : \A t \in 0..MaxNow : AllowedInWindow(id, t) <= rateLimitMax)
  /\ [][\A s \in Slots :
          (rl'.reqs[s] # rl.reqs[s] /\ rl'.reqs[s].outcome = "429")
            => AllowedInWindow(rl'.reqs[s].clientId, rl'.reqs[s].at) >= rateLimitMax]_vars

-----------------------------------------------------------------------------
(* The specification of /website over the saved redirect settings           *)

\* Records validateConfiguration accepts: the three redirect types, one in
\* capitals, and delays at the ends of the range and inside it
RedirectConfigs ==
  {c \in {[builtinConfig EXCEPT !.redirect_type = type, !.redirect_delay = Num(delay)] :
            type \in {Str(immediate), Str(delayed), Str(custom),
                      Str(<<"D","E","L","A","Y","E","D">>)},
            delay \in {0, 1, fallbackDelay, maxDelay}} : validateConfiguration(c).ok}

InitWebsite == InitTgWith({validateConfiguration(c).val : c \in RedirectConfigs})

NextWebsite ==
  \/ \E userAgent \in TgUserAgents, host \in TgHosts, target \in WebsiteTargets :
       WebsiteRequest(userAgent, host, target)
  \/ WebsiteConfig
  \/ WebsiteFallback
  \/ ReqClose
  \/ GetConfigRead
  \/ cfg.pc # "get_read" /\ RedisConnect
  \/ RedisError

SpecWebsite == InitWebsite /\ [][NextWebsite]_vars

\* C39: when the try block of /website has answered with the record getConfig
\* returned, the branch taken is the one of the record's redirect type as
\* validation reads it, and in the delayed branch the delay on the page is the
\* record's redirect_delay, whatever number in 0..30000 it is
C39_WebsiteUsesStoredDelayAndType ==
  (req.pc = "done" /\ req.route = "website" /\ req.mode # <<>>)
    => LET type == validateRedirectType(req.config.redirect_type, Label("redirect_type"))
       IN /\ type.ok => Str(req.mode) = type.val
          /\ (type.ok /\ type.val = Str(delayed) /\ req.config.redirect_delay.k = "num"
                /\ req.config.redirect_delay.n \in 0..maxDelay)
               => req.mode = delayed /\ req.delay = req.config.redirect_delay

====
